---- MODULE Spec2Model ----
(***************************************************************************)
(* Banana Vision 4K (src/App.tsx): the App component's state and handlers  *)
(* as a state machine.                                                     *)
(*                                                                         *)
(* Granularity: one action is one browser task that runs a handler to its  *)
(* next await (a click, a pointer move, the settling of a promise, the     *)
(* firing of onload/onloadend).  React re-renders between tasks, so a      *)
(* handler started by a user event reads the state of the last render; the *)
(* part of an async handler that runs after an await still reads the       *)
(* values its closure captured when the handler was started.  Captured     *)
(* values are kept in the record of the pending handler.                   *)
(*                                                                         *)
(* A control is enabled when it is rendered, not disabled, and not under   *)
(* one of the two full-screen modals (crop z-100, zoom z-200).             *)
(*                                                                         *)
(* Images are opaque: every encoded image that enters the component (a    *)
(* service response, a file, a canvas export) is a new number, and        *)
(* JavaScript null is Null.  Crop coordinates are fixed-point, in 1/100 of *)
(* a percentage unit (50% is 5000).                                        *)
(***************************************************************************)
EXTENDS Integers, Sequences, FiniteSets, TLC

\* ---- bounds of the model ------------------------------------------------
MaxCalls == 2
MaxFiles == 1
MaxLoads == 1
MaxImage == 3
MaxCropHistory == 3
MaxMoves == 1
MaxDrag == 3
MaxPan == 2
MaxOutside == 3
MaxQueue == 3
MaxBatchCalls == 3
MaxUpload == 3

\* ---- values ---------------------------------------------------------------
Null == 0
NoError == "null"
NoHandle == "null"

IDLE == "IDLE"
GENERATING == "GENERATING"
EDITING == "EDITING"
UPSCALING == "UPSCALING"
UPSCALING_FREE == "UPSCALING_FREE"
BATCH_PROCESSING == "BATCH_PROCESSING"
CROPPING == "CROPPING"
ZOOMING == "ZOOMING"
REMOVING_WATERMARK == "REMOVING_WATERMARK"
MAGIC_HAND == "MAGIC_HAND"
ERROR == "ERROR"

AppMode == {IDLE, GENERATING, EDITING, UPSCALING, UPSCALING_FREE,
            BATCH_PROCESSING, CROPPING, ZOOMING, REMOVING_WATERMARK, MAGIC_HAND,
            ERROR}

\* What a rejected service promise carries: an Error with the service's text
\* (the one the 4K handler looks for), or one with no message at all.
NoMessage == ""
NotFoundMessage == "Requested entity was not found"
ServiceMessages == {NotFoundMessage, NoMessage}

VARIABLES
  mode, prompt, currentImage, batchQueue, items, results, history, error,
  isComparing,
  calls, reads, loads, nextCall, nextResult, nextImage,
  cropData, cropRatio, cropPos, cropSize, activeHandle, cropHistory,
  cropHistoryIndex, cropMoves, cropReleased, cropDiscarded, cropOutput,
  zoomScale, zoomTranslate, isPanning,
  comparePosition,
  maskCanvas, maskPen, maskTimers, isDrawing, brushSize

coordVars == <<mode, error>>
artifactVars == <<currentImage, batchQueue, items, results, history>>
asyncVars == <<calls, reads, loads, nextCall, nextResult, nextImage>>
cropVars == <<cropData, cropRatio, cropPos, cropSize, activeHandle, cropHistory,
              cropHistoryIndex, cropMoves, cropReleased, cropDiscarded, cropOutput>>
zoomVars == <<zoomScale, zoomTranslate, isPanning>>
maskVars == <<maskCanvas, maskPen, maskTimers, isDrawing, brushSize>>
vars == <<mode, prompt, currentImage, batchQueue, items, results, history, error,
          isComparing, calls, reads, loads, nextCall, nextResult, nextImage,
          cropData, cropRatio, cropPos, cropSize, activeHandle, cropHistory,
          cropHistoryIndex, cropMoves, cropReleased, cropDiscarded, cropOutput, zoomScale,
          zoomTranslate, isPanning, comparePosition, maskCanvas, maskPen,
          maskTimers, isDrawing, brushSize>>

\* ---- helpers --------------------------------------------------------------
Max(a, b) == IF a > b THEN a ELSE b
Min(a, b) == IF a < b THEN a ELSE b

\* ---- the mask canvas ---------------------------------------------------------
\* The mask canvas is a raster of MaxMask cells in a row (1024 x 1024 in the
\* source).  A cell holds whether it is opaque and how white it is, from 0 to
\* MaxWhite.  A canvas element starts transparent; fillRect with "black" makes
\* a cell opaque black.
MaxMask == 3
MaxWhite == 4
MaxBrush == 2
MaxTimers == 2
MaskCells == 1..MaxMask
Transparent == [opaque |-> FALSE, white |-> 0]
Black == [opaque |-> TRUE, white |-> 0]
FreshCanvas == [q \in MaskCells |-> Transparent]
BlackCanvas == [q \in MaskCells |-> Black]
NoPen == 0

\* useState(40) for the brush, useState(false) for isDrawing; no canvas yet.
InitMaskCanvas ==
  /\ maskCanvas = FreshCanvas
  /\ maskPen = NoPen
  /\ maskTimers = 0
  /\ isDrawing = FALSE
  /\ brushSize = 1


\* err.message || fallback
MessageOr(msg, fallback) == IF msg = NoMessage THEN fallback ELSE msg

NoCrop == [id |-> <<"none", 0>>, base64 |-> Null]

\* What the hidden canvas holds before any crop was drawn.
NoOutput == [x |-> 0, y |-> 0, width |-> 0, height |-> 0,
             canvasWidth |-> 0, canvasHeight |-> 0]
CurrentId == <<"current", 0>>
ResultId(n) == <<"result", n>>
BatchId(a) == <<"batch", a>>

InitialPos == [x |-> 5000, y |-> 5000]
InitialSize == [w |-> 4000, h |-> 4000]

\* The crop modal and the zoom modal cover every other control.
CropModal == mode = CROPPING
ZoomModal == mode = ZOOMING /\ currentImage.url # Null
Uncovered == ~CropModal /\ ~ZoomModal

\* The toolbar of the main workspace.
Toolbar == Uncovered /\ currentImage.url # Null /\ mode = IDLE

Init ==
  /\ mode = IDLE
  /\ prompt = ""
  /\ currentImage = [url |-> Null, base64 |-> Null, beforeUrl |-> Null,
                     resolution |-> "1K", isUpscaled |-> FALSE]
  /\ batchQueue = <<>>
  /\ items = <<>>
  /\ results = <<>>
  /\ history = <<>>
  /\ error = NoError
  /\ isComparing = FALSE
  /\ calls = {}
  /\ reads = <<>>
  /\ loads = <<>>
  /\ nextCall = 1
  /\ nextResult = 1
  /\ nextImage = 1
  /\ cropData = NoCrop
  /\ cropRatio = "1:1"
  /\ cropPos = InitialPos
  /\ cropSize = InitialSize
  /\ activeHandle = NoHandle
  /\ cropHistory = <<>>
  /\ cropHistoryIndex = -1
  /\ cropMoves = 0
  /\ cropReleased = FALSE
  /\ cropDiscarded = 0
  /\ cropOutput = NoOutput
  /\ zoomScale = 10
  /\ zoomTranslate = [x |-> 0, y |-> 0]
  /\ isPanning = FALSE
  /\ comparePosition = 5000
  /\ InitMaskCanvas


\* ---- shared operations ------------------------------------------------------
HistoryCap == 20

\* Several setMode calls in one task: the last one is what the next render shows.
LastSet(ms) == ms[Len(ms)]

\* A variant of addToHistory that cuts after adding one more than the cap.
addToHistoryCutLate(h, url, promptText) ==
  LET all == <<[url |-> url, prompt |-> promptText]>> \o h
  IN  SubSeq(all, 1, Min(HistoryCap + 1, Len(all)))

\* addToHistory: newest first, cut to the cap.
addToHistory(h, url, promptText) ==
  LET all == <<[url |-> url, prompt |-> promptText]>> \o h
  IN  SubSeq(all, 1, Min(HistoryCap, Len(all)))

\* addResult: newest first, under a fresh id.
addResult(rs, n, url, base64, resolution, upscaleType) ==
  <<[id |-> ResultId(n), url |-> url, base64 |-> base64,
     resolution |-> resolution, upscaleType |-> upscaleType]>> \o rs

PromptTexts == {"", "a cat"}
Typed(p) == <<"", p>>
EditOf(p) == <<"Edit: ", p>>
Fixed(t) == <<t, "">>

\* The record of a handler that is waiting at an await.
Handler(kind, pc) ==
  [id |-> nextCall, kind |-> kind, pc |-> pc, img |-> currentImage,
   prompt |-> prompt, queue |-> <<>>, i |-> 0, aistudio |-> FALSE,
   msg |-> NoMessage]

\* An external-service call that has not settled.
Pending == {c \in calls : c.pc = "call"}

CanStart == nextCall <= MaxCalls

\* ---- prompt ---------------------------------------------------------------
SetPrompt(p) ==
  /\ Uncovered
  /\ p # prompt
  /\ prompt' = p
  /\ UNCHANGED <<comparePosition, maskVars, coordVars, artifactVars, isComparing, asyncVars, cropVars, zoomVars>>

\* ---- generate ---------------------------------------------------------------
HandleGenerate ==
  /\ Uncovered /\ prompt # "" /\ mode = IDLE
  /\ CanStart
  /\ mode' = GENERATING
  /\ error' = NoError
  /\ isComparing' = FALSE
  /\ calls' = calls \cup {Handler("generate", "call")}
  /\ nextCall' = nextCall + 1
  /\ UNCHANGED <<comparePosition, maskVars, prompt, artifactVars, reads, loads, nextResult, nextImage, cropVars, zoomVars>>

GenerateResolve(c, img) ==
  /\ c \in calls /\ c.kind = "generate" /\ c.pc = "call"
  /\ currentImage' = [url |-> img, base64 |-> img, beforeUrl |-> Null,
                      resolution |-> "1K", isUpscaled |-> FALSE]
  /\ history' = addToHistory(history, img, Typed(c.prompt))
  /\ mode' = IDLE
  /\ calls' = calls \ {c}
  /\ nextImage' = nextImage + 1
  /\ UNCHANGED <<comparePosition, maskVars, prompt, batchQueue, items, results, error, isComparing, reads,
                 loads, nextCall, nextResult, cropVars, zoomVars>>

GenerateReject(c, msg) ==
  /\ c \in calls /\ c.kind = "generate" /\ c.pc = "call"
  /\ error' = MessageOr(msg, "Failed to generate image")
  /\ mode' = LastSet(<<ERROR, IDLE>>)
  /\ calls' = calls \ {c}
  /\ UNCHANGED <<comparePosition, maskVars, prompt, artifactVars, isComparing, reads, loads, nextCall,
                 nextResult, nextImage, cropVars, zoomVars>>

\* ---- edit -------------------------------------------------------------------
HandleEdit ==
  /\ Toolbar /\ prompt # ""
  /\ currentImage.base64 # Null
  /\ CanStart
  /\ mode' = EDITING
  /\ calls' = calls \cup {Handler("edit", "call")}
  /\ nextCall' = nextCall + 1
  /\ UNCHANGED <<comparePosition, maskVars, prompt, artifactVars, error, isComparing, reads, loads,
                 nextResult, nextImage, cropVars, zoomVars>>

EditResolve(c, img) ==
  /\ c \in calls /\ c.kind = "edit" /\ c.pc = "call"
  /\ currentImage' = [c.img EXCEPT !.url = img, !.base64 = img,
                        !.beforeUrl = c.img.url, !.isUpscaled = FALSE,
                        !.resolution = "1K"]
  /\ history' = addToHistory(history, img, EditOf(c.prompt))
  /\ isComparing' = TRUE
  /\ mode' = IDLE
  /\ calls' = calls \ {c}
  /\ nextImage' = nextImage + 1
  /\ UNCHANGED <<comparePosition, maskVars, prompt, batchQueue, items, results, error, reads, loads,
                 nextCall, nextResult, cropVars, zoomVars>>

\* A variant of the catch block of handleEdit that writes the comparison
\* source into the current image although no result arrived.
EditRejectPartialWrite(c, msg) ==
  /\ c \in calls /\ c.kind = "edit" /\ c.pc = "call"
  /\ error' = MessageOr(msg, "Failed to edit")
  /\ currentImage' = [c.img EXCEPT !.beforeUrl = c.img.url]
  /\ mode' = IDLE
  /\ calls' = calls \ {c}
  /\ UNCHANGED <<comparePosition, maskVars, prompt, batchQueue, items, results, history, isComparing, reads,
                 loads, nextCall, nextResult, nextImage, cropVars, zoomVars>>

EditReject(c, msg) ==
  /\ c \in calls /\ c.kind = "edit" /\ c.pc = "call"
  /\ error' = MessageOr(msg, "Failed to edit")
  /\ mode' = IDLE
  /\ calls' = calls \ {c}
  /\ UNCHANGED <<comparePosition, maskVars, prompt, artifactVars, isComparing, reads, loads, nextCall,
                 nextResult, nextImage, cropVars, zoomVars>>

\* ---- automatic watermark removal --------------------------------------------
HandleRemoveWatermark ==
  /\ Uncovered /\ mode = IDLE /\ currentImage.url # Null
  /\ currentImage.base64 # Null
  /\ CanStart
  /\ mode' = REMOVING_WATERMARK
  /\ error' = NoError
  /\ calls' = calls \cup {Handler("watermark", "call")}
  /\ nextCall' = nextCall + 1
  /\ UNCHANGED <<comparePosition, maskVars, prompt, artifactVars, isComparing, reads, loads, nextResult,
                 nextImage, cropVars, zoomVars>>

RemoveWatermarkResolve(c, img) ==
  /\ c \in calls /\ c.kind = "watermark" /\ c.pc = "call"
  /\ currentImage' = [c.img EXCEPT !.url = img, !.base64 = img,
                        !.beforeUrl = c.img.url,
                        !.resolution = c.img.resolution]
  /\ history' = addToHistory(history, img, Fixed("Auto Watermark Removal"))
  /\ isComparing' = TRUE
  /\ mode' = IDLE
  /\ calls' = calls \ {c}
  /\ nextImage' = nextImage + 1
  /\ UNCHANGED <<comparePosition, maskVars, prompt, batchQueue, items, results, error, reads, loads,
                 nextCall, nextResult, cropVars, zoomVars>>

RemoveWatermarkReject(c, msg) ==
  /\ c \in calls /\ c.kind = "watermark" /\ c.pc = "call"
  /\ error' = MessageOr(msg, "Failed to remove watermark")
  /\ mode' = LastSet(<<ERROR, IDLE>>)
  /\ calls' = calls \ {c}
  /\ UNCHANGED <<comparePosition, maskVars, prompt, artifactVars, isComparing, reads, loads, nextCall,
                 nextResult, nextImage, cropVars, zoomVars>>

\* ---- Magic Hand (masked erase) ----------------------------------------------
\* Entering the mode mounts a new canvas element and arms the 50 ms timer that
\* fills it black.  Timers beyond MaxTimers merge with the last one armed.
startMagicHand ==
  /\ Uncovered /\ mode = IDLE /\ currentImage.url # Null
  /\ mode' = MAGIC_HAND
  /\ maskCanvas' = FreshCanvas
  /\ maskPen' = NoPen
  /\ maskTimers' = Min(MaxTimers, maskTimers + 1)
  /\ UNCHANGED <<comparePosition, isDrawing, brushSize, prompt, error, artifactVars,
                 isComparing, asyncVars, cropVars, zoomVars>>

CancelMagicHand ==
  /\ Uncovered /\ mode = MAGIC_HAND
  /\ mode' = IDLE
  /\ UNCHANGED <<comparePosition, maskVars, prompt, error, artifactVars, isComparing, asyncVars, cropVars,
                 zoomVars>>

\* The mask canvas is mounted exactly while the mode is MAGIC_HAND and an image
\* is shown.
MagicCanvasMounted == mode = MAGIC_HAND /\ currentImage.url # Null

\* The callback of the timer armed by startMagicHand: it fills whatever canvas
\* is mounted when it runs, and does nothing when there is none.
MagicInitTimer ==
  /\ maskTimers > 0
  /\ maskTimers' = maskTimers - 1
  /\ maskCanvas' = IF MagicCanvasMounted THEN BlackCanvas ELSE maskCanvas
  /\ UNCHANGED <<comparePosition, maskPen, isDrawing, brushSize, coordVars, prompt,
                 artifactVars, isComparing, asyncVars, cropVars, zoomVars>>

\* How much of cell q a stroke from cell a to cell b covers: 2 for all of it,
\* 1 for the anti-aliased rim, 0 for none.
Coverage(a, b, q) ==
  LET lo == Min(a, b) - (brushSize - 1)
      hi == Max(a, b) + (brushSize - 1)
  IN  IF lo <= q /\ q <= hi THEN 2
      ELSE IF q = lo - 1 \/ q = hi + 1 THEN 1
      ELSE 0

\* ctx.stroke() with strokeStyle "white" composites source-over.
StrokeCell(cell, cover) ==
  IF cover = 2 THEN [opaque |-> TRUE, white |-> MaxWhite]
  ELSE IF cover = 1
       THEN [cell EXCEPT !.white = cell.white + (MaxWhite - cell.white + 1) \div 2]
       ELSE cell

\* lineTo(x); stroke(); beginPath(); moveTo(x).  lineTo on an empty path only
\* places the pen, and a path of one point strokes nothing.
DrawTo(x) ==
  /\ maskCanvas' = IF maskPen = NoPen THEN maskCanvas
                   ELSE [q \in MaskCells |->
                           StrokeCell(maskCanvas[q], Coverage(maskPen, x, q))]
  /\ maskPen' = x

handleMagicHandDraw(x) ==
  /\ Uncovered /\ MagicCanvasMounted
  /\ isDrawing
  /\ x # maskPen
  /\ DrawTo(x)
  /\ UNCHANGED <<comparePosition, maskTimers, isDrawing, brushSize, coordVars, prompt,
                 artifactVars, isComparing, asyncVars, cropVars, zoomVars>>

\* onMouseDown / onTouchStart: setIsDrawing(true); handleMagicHandDraw(e).  The
\* call reads the isDrawing of the render that bound it.
MagicHandDown(x) ==
  /\ Uncovered /\ MagicCanvasMounted
  /\ isDrawing' = TRUE
  /\ IF isDrawing /\ x # maskPen THEN DrawTo(x) ELSE UNCHANGED <<maskCanvas, maskPen>>
  /\ UNCHANGED <<comparePosition, maskTimers, brushSize, coordVars, prompt,
                 artifactVars, isComparing, asyncVars, cropVars, zoomVars>>

stopMagicHandDraw ==
  /\ Uncovered /\ MagicCanvasMounted
  /\ isDrawing' = FALSE
  /\ maskPen' = NoPen
  /\ UNCHANGED <<comparePosition, maskCanvas, maskTimers, brushSize, coordVars, prompt,
                 artifactVars, isComparing, asyncVars, cropVars, zoomVars>>

clearMagicHand ==
  /\ Uncovered /\ MagicCanvasMounted
  /\ maskCanvas' = BlackCanvas
  /\ UNCHANGED <<comparePosition, maskPen, maskTimers, isDrawing, brushSize, coordVars,
                 prompt, artifactVars, isComparing, asyncVars, cropVars, zoomVars>>

setBrushSize(b) ==
  /\ Uncovered /\ mode = MAGIC_HAND
  /\ b # brushSize
  /\ brushSize' = b
  /\ UNCHANGED <<comparePosition, maskCanvas, maskPen, maskTimers, isDrawing, coordVars,
                 prompt, artifactVars, isComparing, asyncVars, cropVars, zoomVars>>

castMagicHand ==
  /\ Uncovered /\ mode = MAGIC_HAND
  /\ currentImage.base64 # Null /\ MagicCanvasMounted
  /\ CanStart
  /\ mode' = REMOVING_WATERMARK
  /\ calls' = calls \cup {Handler("magic", "call")}
  /\ nextCall' = nextCall + 1
  /\ UNCHANGED <<comparePosition, maskVars, prompt, artifactVars, error, isComparing, reads, loads,
                 nextResult, nextImage, cropVars, zoomVars>>

MagicHandResolve(c, img) ==
  /\ c \in calls /\ c.kind = "magic" /\ c.pc = "call"
  /\ currentImage' = [c.img EXCEPT !.url = img, !.base64 = img,
                        !.beforeUrl = c.img.url,
                        !.resolution = c.img.resolution]
  /\ history' = addToHistory(history, img, Fixed("Magic Hand Removal"))
  /\ isComparing' = TRUE
  /\ mode' = IDLE
  /\ calls' = calls \ {c}
  /\ nextImage' = nextImage + 1
  /\ UNCHANGED <<comparePosition, maskVars, prompt, batchQueue, items, results, error, reads, loads,
                 nextCall, nextResult, cropVars, zoomVars>>

MagicHandReject(c, msg) ==
  /\ c \in calls /\ c.kind = "magic" /\ c.pc = "call"
  /\ error' = MessageOr(msg, "Magic Hand failed")
  /\ mode' = ERROR
  /\ calls' = calls \ {c}
  /\ UNCHANGED <<comparePosition, maskVars, prompt, artifactVars, isComparing, reads, loads, nextCall,
                 nextResult, nextImage, cropVars, zoomVars>>


\* ---- Pro 4K upscale ---------------------------------------------------------
\* setMode(UPSCALING); setError(null); then the service call is awaited.
Upscale4KCall(c) ==
  /\ mode' = UPSCALING
  /\ error' = NoError
  /\ calls' = (calls \ {c}) \cup {[c EXCEPT !.pc = "call"]}

\* window.aistudio is present or not; when it is, the key check is awaited
\* before the mode is set.
handleUpscale4K(aistudio) ==
  /\ Toolbar /\ currentImage.resolution # "4K"
  /\ currentImage.base64 # Null
  /\ CanStart
  /\ nextCall' = nextCall + 1
  /\ LET c == [Handler("upscale4k", "keycheck") EXCEPT !.aistudio = aistudio]
     IN  IF aistudio
         THEN /\ calls' = calls \cup {c}
              /\ UNCHANGED <<mode, error>>
         ELSE /\ mode' = UPSCALING
              /\ error' = NoError
              /\ calls' = calls \cup {[c EXCEPT !.pc = "call"]}
  /\ UNCHANGED <<comparePosition, maskVars, prompt, artifactVars, isComparing, reads, loads, nextResult,
                 nextImage, cropVars, zoomVars>>

\* hasSelectedApiKey() settles: true, false, or a rejection that is caught.
KeyCheckSettle(c, outcome) ==
  /\ c \in calls /\ c.kind = "upscale4k" /\ c.pc = "keycheck"
  /\ IF outcome = "nokey"
     THEN /\ calls' = (calls \ {c}) \cup {[c EXCEPT !.pc = "selectkey"]}
          /\ UNCHANGED <<mode, error>>
     ELSE Upscale4KCall(c)
  /\ UNCHANGED <<comparePosition, maskVars, prompt, artifactVars, isComparing, reads, loads, nextCall,
                 nextResult, nextImage, cropVars, zoomVars>>

\* openSelectKey() settles (a rejection is caught).
SelectKeySettle(c) ==
  /\ c \in calls /\ c.kind = "upscale4k" /\ c.pc = "selectkey"
  /\ Upscale4KCall(c)
  /\ UNCHANGED <<comparePosition, maskVars, prompt, artifactVars, isComparing, reads, loads, nextCall,
                 nextResult, nextImage, cropVars, zoomVars>>

Upscale4KResolve(c, img) ==
  /\ c \in calls /\ c.kind = "upscale4k" /\ c.pc = "call"
  /\ currentImage' = [url |-> img, base64 |-> img, beforeUrl |-> c.img.url,
                      resolution |-> "4K", isUpscaled |-> TRUE]
  /\ results' = addResult(results, nextResult, img, img, "4K", "Pro 4K")
  /\ nextResult' = nextResult + 1
  /\ history' = addToHistory(history, img, Fixed("Pro 4K Enhancement"))
  /\ isComparing' = TRUE
  /\ mode' = IDLE
  /\ calls' = calls \ {c}
  /\ nextImage' = nextImage + 1
  /\ UNCHANGED <<comparePosition, maskVars, prompt, batchQueue, items, error, reads, loads, nextCall,
                 cropVars, zoomVars>>

\* The catch block: a "not found" message with window.aistudio present awaits
\* openSelectKey() before the failure is recorded.
Upscale4KReject(c, msg) ==
  /\ c \in calls /\ c.kind = "upscale4k" /\ c.pc = "call"
  /\ IF msg = NotFoundMessage /\ c.aistudio
     THEN /\ calls' = (calls \ {c}) \cup {[c EXCEPT !.pc = "reselect", !.msg = msg]}
          /\ UNCHANGED <<mode, error>>
     ELSE /\ error' = MessageOr(msg, "Failed to upscale to 4K")
          /\ mode' = LastSet(<<ERROR, IDLE>>)
          /\ calls' = calls \ {c}
  /\ UNCHANGED <<comparePosition, maskVars, prompt, artifactVars, isComparing, reads, loads, nextCall,
                 nextResult, nextImage, cropVars, zoomVars>>

\* openSelectKey() of the catch block settles; if it rejects, the rest of the
\* catch block is skipped and only the finally block runs.
ReselectSettle(c, ok) ==
  /\ c \in calls /\ c.kind = "upscale4k" /\ c.pc = "reselect"
  /\ IF ok
     THEN /\ error' = MessageOr(c.msg, "Failed to upscale to 4K")
          /\ mode' = LastSet(<<ERROR, IDLE>>)
     ELSE /\ mode' = IDLE
          /\ UNCHANGED error
  /\ calls' = calls \ {c}
  /\ UNCHANGED <<comparePosition, maskVars, prompt, artifactVars, isComparing, reads, loads, nextCall,
                 nextResult, nextImage, cropVars, zoomVars>>

\* ---- batch upscale ------------------------------------------------------------
\* The first position >= i of the run's array whose item is not done, or 0.
NextToProcess(its, queue, i) ==
  LET todo == {j \in i..Len(queue) : its[queue[j]].status # "done"}
  IN  IF todo = {} THEN 0 ELSE CHOOSE j \in todo : \A k \in todo : j <= k

EveryDone == \A k \in DOMAIN batchQueue : items[batchQueue[k]].status = "done"

\* The loop from position i of the run's array, up to its next await: skip done
\* items, mark the next one processing and publish the array, or leave the loop
\* and set the mode to IDLE.  its is the item heap after the caller's writes.
BatchLoop(c, its, i) ==
  LET j == NextToProcess(its, c.queue, i)
  IN  IF j = 0
      THEN /\ items' = its
           /\ mode' = IDLE
           /\ calls' = calls \ {c}
           /\ batchQueue' = c.queue
      ELSE /\ items' = [its EXCEPT ![c.queue[j]].status = "processing"]
           /\ batchQueue' = c.queue
           /\ calls' = (calls \ {c}) \cup {[c EXCEPT !.i = j]}
           /\ UNCHANGED mode

\* limit bounds the number of handler invocations of a behaviour.
StartBatch(limit) ==
  /\ Uncovered /\ batchQueue # <<>> /\ mode = IDLE /\ ~EveryDone
  /\ nextCall <= limit
  /\ nextCall' = nextCall + 1
  /\ LET c == [Handler("batch", "call") EXCEPT !.queue = batchQueue]
         j == NextToProcess(items, batchQueue, 1)
     IN  /\ mode' = BATCH_PROCESSING
         /\ items' = [items EXCEPT ![batchQueue[j]].status = "processing"]
         /\ calls' = calls \cup {[c EXCEPT !.i = j]}
  /\ UNCHANGED <<comparePosition, maskVars, prompt, currentImage, batchQueue, results, history, error,
                 isComparing, reads, loads, nextResult, nextImage, cropVars, zoomVars>>

handleBatchUpscale == StartBatch(MaxCalls)

BatchItemResolve(c, img) ==
  /\ c \in calls /\ c.kind = "batch" /\ c.pc = "call"
  /\ LET a == c.queue[c.i]
         its == [items EXCEPT ![a] = [@ EXCEPT !.url = img, !.base64 = img,
                                         !.status = "done",
                                         !.resolution = "Enhanced HD",
                                         !.upscaleType = "Free"]]
     IN  BatchLoop(c, its, c.i + 1)
  /\ results' = addResult(results, nextResult, img, img, "Enhanced HD", "Free Batch")
  /\ nextResult' = nextResult + 1
  /\ nextImage' = nextImage + 1
  /\ UNCHANGED <<comparePosition, maskVars, prompt, currentImage, history, error, isComparing, reads, loads,
                 nextCall, cropVars, zoomVars>>

\* A variant of the catch block that leaves the loop after marking the item.
BatchItemRejectAborting(c, msg) ==
  /\ c \in calls /\ c.kind = "batch" /\ c.pc = "call"
  /\ items' = [items EXCEPT ![c.queue[c.i]] =
                              [@ EXCEPT !.status = "error", !.error = msg]]
  /\ batchQueue' = c.queue
  /\ mode' = IDLE
  /\ calls' = calls \ {c}
  /\ UNCHANGED <<comparePosition, maskVars, prompt, currentImage, results, history, error, isComparing,
                 reads, loads, nextCall, nextResult, nextImage, cropVars, zoomVars>>

BatchItemReject(c, msg) ==
  /\ c \in calls /\ c.kind = "batch" /\ c.pc = "call"
  /\ LET a == c.queue[c.i]
         its == [items EXCEPT ![a] = [@ EXCEPT !.status = "error", !.error = msg]]
     IN  BatchLoop(c, its, c.i + 1)
  /\ UNCHANGED <<comparePosition, maskVars, prompt, currentImage, results, history, error, isComparing,
                 reads, loads, nextCall, nextResult, nextImage, cropVars, zoomVars>>


\* ---- file upload --------------------------------------------------------------
\* One FileReader per file; each onloadend closure keeps the currentImage of the
\* render in which the files were chosen.
FilesLeft(limit) == limit - Len(items) - Len(reads)

\* n files are chosen; file k holds image nextImage + k - 1. limit bounds the
\* number of files of a behaviour.
FileUpload(n, limit) ==
  /\ Uncovered
  /\ n >= 1 /\ n <= FilesLeft(limit)
  /\ reads' = reads \o [k \in 1..n |->
                          [img |-> nextImage + k - 1, url |-> currentImage.url]]
  /\ nextImage' = nextImage + n
  /\ UNCHANGED <<comparePosition, maskVars, coordVars, prompt, artifactVars, isComparing, calls, loads,
                 nextCall, nextResult, cropVars, zoomVars>>

handleFileUpload(n) == FileUpload(n, MaxFiles)

RemoveAt(seq, k) == SubSeq(seq, 1, k - 1) \o SubSeq(seq, k + 1, Len(seq))

FileLoaded(k) ==
  /\ k \in DOMAIN reads
  /\ LET r == reads[k]
         item == [url |-> r.img, base64 |-> r.img, status |-> "idle",
                  resolution |-> "Original", upscaleType |-> "none",
                  error |-> "none"]
     IN  /\ items' = Append(items, item)
         /\ batchQueue' = Append(batchQueue, Len(items) + 1)
         /\ currentImage' =
              IF r.url = Null
              THEN [url |-> r.img, base64 |-> r.img, beforeUrl |-> Null,
                    resolution |-> "Original", isUpscaled |-> FALSE]
              ELSE currentImage
  /\ reads' = RemoveAt(reads, k)
  /\ UNCHANGED <<comparePosition, maskVars, coordVars, prompt, results, history, isComparing, calls, loads,
                 nextCall, nextResult, nextImage, cropVars, zoomVars>>

\* ---- batch queue, result library, session history -----------------------------
\* The remove button of a queue thumbnail; k is the thumbnail's position.
removeFromBatch(k) ==
  /\ Uncovered /\ k \in DOMAIN batchQueue
  /\ batchQueue' = RemoveAt(batchQueue, k)
  /\ UNCHANGED <<comparePosition, maskVars, coordVars, prompt, currentImage, items, results,
                 history, isComparing, asyncVars, cropVars, zoomVars>>

\* "Clear" of the queue panel: setBatchQueue([]).
ClearBatchQueue ==
  /\ Uncovered /\ batchQueue # <<>>
  /\ batchQueue' = <<>>
  /\ UNCHANGED <<comparePosition, maskVars, coordVars, prompt, currentImage, items, results,
                 history, isComparing, asyncVars, cropVars, zoomVars>>

SelectBatchItem(k) ==
  /\ Uncovered /\ k \in DOMAIN batchQueue
  /\ LET item == items[batchQueue[k]]
     IN  currentImage' = [url |-> item.url, base64 |-> item.base64,
                          beforeUrl |-> Null, resolution |-> item.resolution,
                          isUpscaled |-> (item.status = "done")]
  /\ UNCHANGED <<comparePosition, maskVars, coordVars, prompt, batchQueue, items, results, history,
                 isComparing, asyncVars, cropVars, zoomVars>>

ViewResult(k) ==
  /\ Uncovered /\ k \in DOMAIN results
  /\ currentImage' = [url |-> results[k].url, base64 |-> results[k].base64,
                      beforeUrl |-> Null, resolution |-> results[k].resolution,
                      isUpscaled |-> TRUE]
  /\ isComparing' = FALSE
  /\ UNCHANGED <<comparePosition, maskVars, coordVars, prompt, batchQueue, items, results, history,
                 asyncVars, cropVars, zoomVars>>

SelectHistory(k) ==
  /\ Uncovered /\ k \in DOMAIN history
  /\ currentImage' = [url |-> history[k].url, base64 |-> history[k].url,
                      beforeUrl |-> Null, resolution |-> "1K",
                      isUpscaled |-> FALSE]
  /\ isComparing' = FALSE
  /\ UNCHANGED <<comparePosition, maskVars, coordVars, prompt, batchQueue, items, results, history,
                 asyncVars, cropVars, zoomVars>>

ToggleCompare ==
  /\ Toolbar /\ currentImage.beforeUrl # Null
  /\ isComparing' = ~isComparing
  /\ UNCHANGED <<comparePosition, maskVars, coordVars, prompt, artifactVars, asyncVars, cropVars, zoomVars>>

\* The error banner (z-101) lies over the crop modal and under the zoom modal.
DismissError ==
  /\ ~ZoomModal /\ error # NoError
  /\ error' = NoError
  /\ UNCHANGED <<comparePosition, maskVars, mode, prompt, artifactVars, isComparing, asyncVars, cropVars,
                 zoomVars>>

\* ---- comparison slider ------------------------------------------------------------
\* comparePosition is in 1/100 of a percent (50 is 5000).
\* The comparison surface is rendered, so sliderRef.current is set.
ComparisonSurface ==
  Uncovered /\ currentImage.url # Null /\ isComparing
    /\ currentImage.beforeUrl # Null /\ mode = IDLE

\* getBoundingClientRect() of the surface, in pixels. A pointer event reaches
\* the surface only when its box is not empty.
SurfaceLefts == {0, 40}
SurfaceWidths == {7, 100}

\* clientX of the pointer: a mouse is over the surface; a touch that began on
\* it keeps reporting to it from up to MaxOutside pixels beyond either edge.
ClientXs(left, width) == (left - MaxOutside)..(left + width + MaxOutside)

\* A variant of the stored position with the upper limit only.
SliderPositionNoFloor(x, left, width) ==
  Min(10000, ((x - left) * 10000) \div width)

\* Math.max(0, Math.min(100, ((x - rect.left) / rect.width) * 100))
SliderPosition(x, left, width) ==
  Max(0, Min(10000, ((x - left) * 10000) \div width))

handleComparisonMove(x, left, width) ==
  /\ ComparisonSurface
  /\ comparePosition' = SliderPosition(x, left, width)
  /\ UNCHANGED <<maskVars, coordVars, prompt, artifactVars, isComparing, asyncVars,
                 cropVars, zoomVars>>

\* ---- zoom viewer: entry and exit ----------------------------------------------
\* zoomScale is in tenths (1.0 is 10).
startZoom ==
  /\ Toolbar
  /\ currentImage.url # Null
  /\ zoomScale' = 10
  /\ zoomTranslate' = [x |-> 0, y |-> 0]
  /\ mode' = ZOOMING
  /\ UNCHANGED <<comparePosition, maskVars, prompt, error, artifactVars, isComparing, asyncVars, cropVars,
                 isPanning>>

\* The close button of the zoom modal; the click's mouseup reaches the root
\* element, whose onMouseUp is handleZoomMouseUp.
CloseZoom ==
  /\ ZoomModal
  /\ mode' = IDLE
  /\ isPanning' = FALSE
  /\ UNCHANGED <<comparePosition, maskVars, prompt, error, artifactVars, isComparing, asyncVars, cropVars,
                 zoomScale, zoomTranslate>>

\* ---- zoom viewer: scale and pan -------------------------------------------------
\* The scale limits 0.5 and 10, the wheel step 0.1 and the button step 0.5, in
\* tenths.
ZoomMin == 5
ZoomMax == 100
WheelStep == 1
ButtonStep == 5

\* e.deltaY of a wheel event: up, none (a sideways scroll), down.
WheelDeltas == {-100, 0, 100}

\* e.movementX and e.movementY of a pointer move.
Movements == {-1, 0, 1}

\* A variant of the wheel handler's updater that has no lower limit.
ZoomByNoFloor(prev, delta) == Min(ZoomMax, prev + delta)

\* prev => Math.max(0.5, Math.min(10, prev + delta))
ZoomBy(prev, delta) == Max(ZoomMin, Min(ZoomMax, prev + delta))

handleZoomWheel(deltaY) ==
  /\ ZoomModal
  /\ LET delta == IF deltaY > 0 THEN -WheelStep ELSE WheelStep
     IN  zoomScale' = ZoomBy(zoomScale, delta)
  /\ UNCHANGED <<comparePosition, maskVars, coordVars, prompt, artifactVars, isComparing, asyncVars,
                 cropVars, zoomTranslate, isPanning>>

\* The three scale buttons of the zoom header. As for the close button, the
\* click's mouseup reaches the root element (handleZoomMouseUp).
ZoomOutButton ==
  /\ ZoomModal
  /\ zoomScale' = Max(ZoomMin, zoomScale - ButtonStep)
  /\ isPanning' = FALSE
  /\ UNCHANGED <<comparePosition, maskVars, coordVars, prompt, artifactVars, isComparing, asyncVars,
                 cropVars, zoomTranslate>>

ResetZoomButton ==
  /\ ZoomModal
  /\ zoomScale' = 10
  /\ isPanning' = FALSE
  /\ UNCHANGED <<comparePosition, maskVars, coordVars, prompt, artifactVars, isComparing, asyncVars,
                 cropVars, zoomTranslate>>

ZoomInButton ==
  /\ ZoomModal
  /\ zoomScale' = Min(ZoomMax, zoomScale + ButtonStep)
  /\ isPanning' = FALSE
  /\ UNCHANGED <<comparePosition, maskVars, coordVars, prompt, artifactVars, isComparing, asyncVars,
                 cropVars, zoomTranslate>>

handleZoomMouseDown ==
  /\ ZoomModal
  /\ isPanning' = IF zoomScale > 10 THEN TRUE ELSE isPanning
  /\ UNCHANGED <<comparePosition, maskVars, coordVars, prompt, artifactVars, isComparing, asyncVars,
                 cropVars, zoomScale, zoomTranslate>>

\* The translation is unbounded in the source; the model follows it up to
\* MaxPan pixels each way.
handleZoomMouseMove(movementX, movementY) ==
  /\ ZoomModal
  /\ LET next == [x |-> zoomTranslate.x + movementX,
                  y |-> zoomTranslate.y + movementY]
     IN  /\ next.x \in -MaxPan..MaxPan /\ next.y \in -MaxPan..MaxPan
         /\ zoomTranslate' = IF isPanning THEN next ELSE zoomTranslate
  /\ UNCHANGED <<comparePosition, maskVars, coordVars, prompt, artifactVars, isComparing, asyncVars,
                 cropVars, zoomScale, isPanning>>

\* onMouseUp and onMouseLeave of the viewport.
handleZoomMouseUp ==
  /\ ZoomModal
  /\ isPanning' = FALSE
  /\ UNCHANGED <<comparePosition, maskVars, coordVars, prompt, artifactVars, isComparing, asyncVars,
                 cropVars, zoomScale, zoomTranslate>>

\* ---- crop: entry, cancel, commit ----------------------------------------------
\* A variant of startCrop that leaves the undo history of the session before.
startCropKeepingHistory(id, base64) ==
  /\ base64 # Null
  /\ cropData' = [id |-> id, base64 |-> base64]
  /\ mode' = CROPPING
  /\ cropRatio' = "1:1"
  /\ cropPos' = InitialPos
  /\ cropSize' = InitialSize
  /\ cropMoves' = 0
  /\ cropReleased' = FALSE
  /\ cropDiscarded' = 0
  /\ UNCHANGED <<comparePosition, maskVars, prompt, error, artifactVars, isComparing, asyncVars,
                 activeHandle, cropOutput, zoomVars, cropHistory, cropHistoryIndex>>

startCrop(id, base64) ==
  /\ base64 # Null
  /\ cropData' = [id |-> id, base64 |-> base64]
  /\ mode' = CROPPING
  /\ cropRatio' = "1:1"
  /\ cropPos' = InitialPos
  /\ cropSize' = InitialSize
  /\ cropHistory' = <<[pos |-> InitialPos, size |-> InitialSize, ratio |-> "1:1"]>>
  /\ cropHistoryIndex' = 0
  /\ cropMoves' = 0
  /\ cropReleased' = FALSE
  /\ cropDiscarded' = 0
  /\ UNCHANGED <<comparePosition, maskVars, prompt, error, artifactVars, isComparing, asyncVars,
                 activeHandle, cropOutput, zoomVars>>

\* "Advanced Crop" of the workspace toolbar.
StartCropCurrent ==
  /\ Toolbar
  /\ startCrop(CurrentId, currentImage.base64)

\* "Crop" of a result-library entry: rendered whenever the library is not empty.
StartCropResult(k) ==
  /\ Uncovered /\ k \in DOMAIN results
  /\ startCrop(results[k].id, results[k].base64)

DiscardCrop ==
  /\ CropModal
  /\ mode' = IDLE
  /\ UNCHANGED <<comparePosition, maskVars, prompt, error, artifactVars, isComparing, asyncVars, cropVars,
                 zoomVars>>

\* "Finalize Crop": starts loading the source; onload keeps what the render of
\* the click showed (cropData, cropPos, cropSize, currentImage.url, results).
\* limit bounds the number of loads that are pending at once.
FinalizeCrop(limit) ==
  /\ CropModal
  /\ cropData # NoCrop
  /\ Len(loads) < limit
  /\ nextImage <= MaxImage
  /\ loads' = Append(loads, [crop |-> cropData, pos |-> cropPos, size |-> cropSize,
                             previousUrl |-> currentImage.url,
                             found |-> (\E k \in DOMAIN results :
                                          results[k].id = cropData.id)])
  /\ UNCHANGED <<comparePosition, maskVars, coordVars, prompt, artifactVars, isComparing, calls, reads,
                 nextCall, nextResult, nextImage, cropVars, zoomVars>>

executeCrop == FinalizeCrop(MaxLoads)

\* Pixel quantities are kept in 1/PxScale of a pixel, so that size/100 * W and
\* the half width are whole numbers (sizes and positions are in 1/100 %).
PxScale == 20000

\* naturalWidth and naturalHeight of the sources the model loads.
SourceDims == {1000, 1001}

\* A variant of the source rectangle that takes the region's position for its
\* top-left corner instead of its centre.
CropRectFromCorner(pos, size, realW, realH) ==
  [width |-> 2 * size.w * realW,
   height |-> 2 * size.h * realH,
   x |-> 2 * pos.x * realW,
   y |-> 2 * pos.y * realH]

\* width, height, x, y of img.onload, in 1/PxScale pixel.
CropRect(pos, size, realW, realH) ==
  [width |-> 2 * size.w * realW,
   height |-> 2 * size.h * realH,
   x |-> 2 * pos.x * realW - size.w * realW,
   y |-> 2 * pos.y * realH - size.h * realH]

\* canvas.width = v: the attribute is an unsigned long, so the fraction of a
\* non-negative number is dropped.
CanvasDimension(v) == v \div PxScale

\* What the canvas holds after drawImage: the source rectangle, drawn at scale
\* 1 from the canvas origin, on a canvas of canvasWidth x canvasHeight pixels.
CanvasDraw(pos, size, realW, realH) ==
  LET r == CropRect(pos, size, realW, realH)
  IN  [x |-> r.x, y |-> r.y, width |-> r.width, height |-> r.height,
       canvasWidth |-> CanvasDimension(r.width),
       canvasHeight |-> CanvasDimension(r.height)]

\* img.onload of executeCrop; img is the encoded crop, realW x realH the
\* natural size of the loaded source.
CropLoaded(k, img, realW, realH) ==
  /\ k \in DOMAIN loads
  /\ cropOutput' = CanvasDraw(loads[k].pos, loads[k].size, realW, realH)
  /\ LET l == loads[k]
     IN  IF l.crop.id = CurrentId
         THEN /\ currentImage' = [currentImage EXCEPT !.url = img, !.base64 = img,
                                    !.beforeUrl = l.previousUrl,
                                    !.resolution = "Cropped"]
              /\ UNCHANGED <<results, nextResult, batchQueue, items>>
         ELSE /\ IF l.found
                 THEN /\ results' = addResult(results, nextResult, img, img,
                                              "Cropped", "Manual Edit")
                      /\ nextResult' = nextResult + 1
                 ELSE UNCHANGED <<results, nextResult>>
              \* prev.map(...): a batch item is rewritten when its id is the
              \* crop target's (ids of batch items, of results and 'current'
              \* are never equal)
              /\ items' = [a \in DOMAIN items |->
                            IF BatchId(a) = l.crop.id
                            THEN [items[a] EXCEPT !.url = img, !.base64 = img,
                                                  !.resolution = "Cropped"]
                            ELSE items[a]]
              /\ UNCHANGED <<currentImage, batchQueue>>
  /\ mode' = IDLE
  /\ cropData' = NoCrop
  /\ loads' = RemoveAt(loads, k)
  /\ nextImage' = nextImage + 1
  /\ UNCHANGED <<comparePosition, maskVars, prompt, error, history, isComparing, calls, reads, nextCall,
                 cropRatio, cropPos, cropSize, activeHandle, cropHistory,
                 cropHistoryIndex, cropMoves, cropReleased, cropDiscarded, zoomVars>>


\* img.onerror is not handled: a source that cannot be decoded ends the load
\* without any effect.
CropLoadError(k) ==
  /\ k \in DOMAIN loads
  /\ loads' = RemoveAt(loads, k)
  /\ UNCHANGED <<comparePosition, maskVars, coordVars, prompt, artifactVars, isComparing, calls, reads,
                 nextCall, nextResult, nextImage, cropVars, zoomVars>>

\* ---- crop session: handles, pointer, ratio, undo/redo -------------------------
Handles == {"center", "tl", "tr", "bl", "br"}
Ratios == {"1:1", "16:9", "9:16", "Free"}

\* Pointer positions in the container's percentage space (1/100 %); a touch
\* that started on the container keeps reporting outside it.  cropMoves counts
\* the pointer moves of the session, which the model bounds by MaxMoves.
PointerCoords == {2000, 11000}

\* newW / targetRatio and newH * targetRatio, rounded down to 1/100 %.
DivRatio(w, ratio) ==
  IF ratio = "1:1" THEN w
  ELSE IF ratio = "16:9" THEN (w * 9) \div 16
  ELSE (w * 16) \div 9

MulRatio(h, ratio) ==
  IF ratio = "1:1" THEN h
  ELSE IF ratio = "16:9" THEN (h * 16) \div 9
  ELSE (h * 9) \div 16

\* A variant of pushCropHistory without the slice: the new state is appended
\* after the entries that a redo could still reach.
pushCropHistoryKeepingForward(pos, size, ratio) ==
  LET newHistory == Append(cropHistory,
                           [pos |-> pos, size |-> size, ratio |-> ratio])
  IN  /\ cropHistory' = newHistory
      /\ cropHistoryIndex' = Len(newHistory) - 1
      /\ cropDiscarded' = 0

\* pushCropHistory: cut the entries after the index, append, point at the end.
\* (cropHistoryIndex counts from 0, sequences from 1.)  cropDiscarded is a
\* history variable of the model: the number of entries the session's latest
\* push cut off.
pushCropHistory(pos, size, ratio) ==
  LET newHistory == Append(SubSeq(cropHistory, 1, cropHistoryIndex + 1),
                           [pos |-> pos, size |-> size, ratio |-> ratio])
  IN  /\ cropHistory' = newHistory
      /\ cropHistoryIndex' = Len(newHistory) - 1
      /\ cropDiscarded' = Len(cropHistory) - (cropHistoryIndex + 1)

\* The part of the component's state that undo and redo read and write.
CropState ==
  [pos |-> cropPos, size |-> cropSize, ratio |-> cropRatio,
   index |-> cropHistoryIndex, history |-> cropHistory]

\* A variant of undoCrop that drops the entries it steps back over.
UndoneDroppingEntries(s) ==
  IF s.index > 0
  THEN LET prev == s.history[s.index]
       IN  [s EXCEPT !.pos = prev.pos, !.size = prev.size, !.ratio = prev.ratio,
                     !.index = s.index - 1,
                     !.history = SubSeq(s.history, 1, s.index)]
  ELSE s

\* undoCrop: with index > 0 the region of the entry before the index, and the
\* index moved back; otherwise nothing.
Undone(s) ==
  IF s.index > 0
  THEN LET prev == s.history[s.index]
       IN  [s EXCEPT !.pos = prev.pos, !.size = prev.size, !.ratio = prev.ratio,
                     !.index = s.index - 1]
  ELSE s

\* redoCrop: with index < length - 1 the region of the entry after the index,
\* and the index moved forward; otherwise nothing.
Redone(s) ==
  IF s.index < Len(s.history) - 1
  THEN LET next == s.history[s.index + 2]
       IN  [s EXCEPT !.pos = next.pos, !.size = next.size, !.ratio = next.ratio,
                     !.index = s.index + 1]
  ELSE s

SetCropState(s) ==
  /\ cropPos' = s.pos
  /\ cropSize' = s.size
  /\ cropRatio' = s.ratio
  /\ cropHistoryIndex' = s.index
  /\ cropHistory' = s.history

undoCrop ==
  /\ CropModal
  /\ cropHistoryIndex > 0
  /\ SetCropState(Undone(CropState))
  /\ UNCHANGED <<comparePosition, maskVars, coordVars, prompt, artifactVars, isComparing, asyncVars,
                 cropData, cropOutput, activeHandle, cropMoves, cropReleased, cropDiscarded, zoomVars>>

redoCrop ==
  /\ CropModal
  /\ cropHistoryIndex < Len(cropHistory) - 1
  /\ SetCropState(Redone(CropState))
  /\ UNCHANGED <<comparePosition, maskVars, coordVars, prompt, artifactVars, isComparing, asyncVars,
                 cropData, cropOutput, activeHandle, cropMoves, cropReleased, cropDiscarded, zoomVars>>

CanonicalSize(ratio) ==
  IF ratio = "1:1" THEN [w |-> 4000, h |-> 4000]
  ELSE IF ratio = "16:9" THEN [w |-> 6000, h |-> 3375]
  ELSE IF ratio = "9:16" THEN [w |-> 2500, h |-> 4444]
  ELSE cropSize

updateCropBox(ratio) ==
  /\ CropModal
  /\ cropHistoryIndex + 2 <= MaxCropHistory
  /\ LET newSize == CanonicalSize(ratio)
     IN  /\ cropRatio' = ratio
         /\ cropSize' = newSize
         /\ cropPos' = InitialPos
         /\ pushCropHistory(InitialPos, newSize, ratio)
  /\ UNCHANGED <<comparePosition, maskVars, coordVars, prompt, artifactVars, isComparing, asyncVars,
                 cropData, cropOutput, activeHandle, cropMoves, cropReleased, zoomVars>>

\* pushCropHistory applied to a square region of the given edge at the
\* current position and ratio: what a caller passes after the region was
\* resized to that size.
PushSizes == {4000, 3000, 2000}

PushRegion(edge) ==
  /\ CropModal
  /\ cropHistoryIndex + 2 <= MaxCropHistory
  /\ cropSize' = [w |-> edge, h |-> edge]
  /\ pushCropHistory(cropPos, [w |-> edge, h |-> edge], cropRatio)
  /\ UNCHANGED <<comparePosition, maskVars, coordVars, prompt, artifactVars, isComparing, asyncVars,
                 cropData, cropOutput, cropRatio, cropPos, activeHandle, cropMoves,
                 cropReleased, zoomVars>>

\* onMouseDown / onTouchStart of the crop box and of its four corner handles.
SetActiveHandle(h) ==
  /\ CropModal
  /\ activeHandle' = h
  /\ cropReleased' = FALSE
  /\ UNCHANGED <<comparePosition, maskVars, coordVars, prompt, artifactVars, isComparing, asyncVars,
                 cropData, cropOutput, cropRatio, cropPos, cropSize, cropHistory,
                 cropHistoryIndex, cropMoves, cropDiscarded, zoomVars>>

\* The corner branch of handleCropMouseMove: the region after the move.
CornerMove(h, mouseX, mouseY) ==
  LET left0 == cropPos.x - cropSize.w \div 2
      top0 == cropPos.y - cropSize.h \div 2
      right0 == cropPos.x + cropSize.w \div 2
      bottom0 == cropPos.y + cropSize.h \div 2
      left == IF h \in {"tl", "bl"} THEN Min(right0 - 500, Max(0, mouseX)) ELSE left0
      right == IF h \in {"tr", "br"} THEN Max(left0 + 500, Min(10000, mouseX)) ELSE right0
      top1 == IF h \in {"tl", "tr"} THEN Min(bottom0 - 500, Max(0, mouseY)) ELSE top0
      bottom1 == IF h \in {"bl", "br"} THEN Max(top0 + 500, Min(10000, mouseY)) ELSE bottom0
      w1 == right - left
      h1 == bottom1 - top1
      locked == cropRatio # "Free"
      h2 == IF locked THEN DivRatio(w1, cropRatio) ELSE h1
      top2 == IF locked /\ h \in {"tl", "tr"} THEN bottom1 - h2 ELSE top1
      bottom2 == IF locked /\ h \in {"bl", "br"} THEN top1 + h2 ELSE bottom1
      over == locked /\ bottom2 > 10000
      bottom3 == IF over THEN 10000 ELSE bottom2
      h3 == IF over THEN bottom3 - top2 ELSE h2
      w3 == IF over THEN MulRatio(h3, cropRatio) ELSE w1
      under == locked /\ top2 < 0
      top4 == IF under THEN 0 ELSE top2
      h4 == IF under THEN bottom3 - top4 ELSE h3
      w4 == IF under THEN MulRatio(h4, cropRatio) ELSE w3
  IN  [size |-> [w |-> w4, h |-> h4],
       pos |-> [x |-> left + w4 \div 2, y |-> top4 + h4 \div 2]]

\* handleCropMouseMove, for a session of at most limit pointer moves.
CropMouseMove(mouseX, mouseY, limit) ==
  /\ CropModal
  /\ cropMoves < limit
  /\ cropMoves' = cropMoves + 1
  /\ IF activeHandle = "center"
     THEN /\ cropPos' = [x |-> Max(cropSize.w \div 2,
                                   Min(10000 - cropSize.w \div 2, mouseX)),
                         y |-> Max(cropSize.h \div 2,
                                   Min(10000 - cropSize.h \div 2, mouseY))]
          /\ UNCHANGED cropSize
     ELSE IF activeHandle # NoHandle
     THEN /\ cropSize' = CornerMove(activeHandle, mouseX, mouseY).size
          /\ cropPos' = CornerMove(activeHandle, mouseX, mouseY).pos
     ELSE UNCHANGED <<cropPos, cropSize>>
  /\ UNCHANGED <<comparePosition, maskVars, coordVars, prompt, artifactVars, isComparing, asyncVars,
                 cropData, cropOutput, cropRatio, activeHandle, cropHistory,
                 cropHistoryIndex, cropReleased, cropDiscarded, zoomVars>>

handleCropMouseMove(mouseX, mouseY) == CropMouseMove(mouseX, mouseY, MaxMoves)

\* A pointer release over the crop modal: the crop container and the crop box
\* bind no release handler, so the event reaches the root element, whose
\* onMouseUp and onTouchEnd are handleZoomMouseUp. cropReleased records that
\* the pointer was released after the last handle-down.
CropPointerUp ==
  /\ CropModal
  /\ isPanning' = FALSE
  /\ cropReleased' = TRUE
  /\ UNCHANGED <<comparePosition, maskVars, coordVars, prompt, artifactVars, isComparing, asyncVars,
                 cropData, cropOutput, cropRatio, cropPos, cropSize, activeHandle,
                 cropHistory, cropHistoryIndex, cropMoves, cropDiscarded,
                 zoomScale, zoomTranslate>>

\* handleHandleUp is defined by the component and bound to no event.
handleHandleUp ==
  /\ CropModal
  /\ activeHandle # NoHandle
  /\ pushCropHistory(cropPos, cropSize, cropRatio)
  /\ activeHandle' = NoHandle
  /\ UNCHANGED <<comparePosition, maskVars, coordVars, prompt, artifactVars, isComparing, asyncVars,
                 cropData, cropOutput, cropRatio, cropPos, cropSize, cropMoves, cropReleased, zoomVars>>

\* ---- specifications -------------------------------------------------------------
Outcomes == {"key", "nokey", "throws"}

Next ==
  \/ \E p \in PromptTexts : SetPrompt(p)
  \/ HandleGenerate
  \/ \E c \in calls : GenerateResolve(c, nextImage)
  \/ \E c \in calls, msg \in ServiceMessages : GenerateReject(c, msg)
  \/ HandleEdit
  \/ \E c \in calls : EditResolve(c, nextImage)
  \/ \E c \in calls, msg \in ServiceMessages : EditReject(c, msg)
  \/ HandleRemoveWatermark
  \/ \E c \in calls : RemoveWatermarkResolve(c, nextImage)
  \/ \E c \in calls, msg \in ServiceMessages : RemoveWatermarkReject(c, msg)
  \/ startMagicHand
  \/ CancelMagicHand
  \/ castMagicHand
  \/ \E c \in calls : MagicHandResolve(c, nextImage)
  \/ \E c \in calls, msg \in ServiceMessages : MagicHandReject(c, msg)
  \/ \E aistudio \in BOOLEAN : handleUpscale4K(aistudio)
  \/ \E c \in calls, outcome \in Outcomes : KeyCheckSettle(c, outcome)
  \/ \E c \in calls : SelectKeySettle(c)
  \/ \E c \in calls : Upscale4KResolve(c, nextImage)
  \/ \E c \in calls, msg \in ServiceMessages : Upscale4KReject(c, msg)
  \/ \E c \in calls, ok \in BOOLEAN : ReselectSettle(c, ok)
  \/ handleBatchUpscale
  \/ \E c \in calls : BatchItemResolve(c, nextImage)
  \/ \E c \in calls, msg \in ServiceMessages : BatchItemReject(c, msg)
  \/ \E n \in 1..MaxFiles : handleFileUpload(n)
  \/ \E k \in DOMAIN reads : FileLoaded(k)
  \/ \E k \in DOMAIN batchQueue : SelectBatchItem(k)
  \/ \E k \in DOMAIN results : ViewResult(k)
  \/ \E k \in DOMAIN history : SelectHistory(k)
  \/ ToggleCompare
  \/ DismissError
  \/ startZoom
  \/ CloseZoom
  \/ StartCropCurrent
  \/ \E k \in DOMAIN results : StartCropResult(k)
  \/ DiscardCrop

Spec == Init /\ [][Next]_vars

\* The crop session on its own, from the state in which one uploaded file is
\* the current image and "Advanced Crop" has just been clicked.
InitCrop ==
  /\ mode = CROPPING
  /\ prompt = ""
  /\ currentImage = [url |-> 1, base64 |-> 1, beforeUrl |-> Null,
                     resolution |-> "Original", isUpscaled |-> FALSE]
  /\ batchQueue = <<1>>
  /\ items = <<[url |-> 1, base64 |-> 1, status |-> "idle",
                resolution |-> "Original", upscaleType |-> "none",
                error |-> "none"]>>
  /\ results = <<>>
  /\ history = <<>>
  /\ error = NoError
  /\ isComparing = FALSE
  /\ calls = {}
  /\ reads = <<>>
  /\ loads = <<>>
  /\ nextCall = 1
  /\ nextResult = 1
  /\ nextImage = 2
  /\ cropData = [id |-> CurrentId, base64 |-> 1]
  /\ cropRatio = "1:1"
  /\ cropPos = InitialPos
  /\ cropSize = InitialSize
  /\ activeHandle = NoHandle
  /\ cropHistory = <<[pos |-> InitialPos, size |-> InitialSize, ratio |-> "1:1"]>>
  /\ cropHistoryIndex = 0
  /\ cropMoves = 0
  /\ cropReleased = FALSE
  /\ cropDiscarded = 0
  /\ cropOutput = NoOutput
  /\ zoomScale = 10
  /\ zoomTranslate = [x |-> 0, y |-> 0]
  /\ isPanning = FALSE
  /\ comparePosition = 5000
  /\ InitMaskCanvas

NextCrop ==
  \/ StartCropCurrent
  \/ DiscardCrop
  \/ \E h \in Handles : SetActiveHandle(h)
  \/ \E x \in PointerCoords, y \in PointerCoords : handleCropMouseMove(x, y)
  \/ \E r \in Ratios : updateCropBox(r)
  \/ undoCrop
  \/ redoCrop

SpecCrop == InitCrop /\ [][NextCrop]_vars

\* The crop session with longer drags: up to MaxDrag pointer moves.
NextRegion ==
  \/ \E h \in Handles : SetActiveHandle(h)
  \/ \E x \in PointerCoords, y \in PointerCoords : CropMouseMove(x, y, MaxDrag)
  \/ \E r \in Ratios : updateCropBox(r)
  \/ undoCrop
  \/ redoCrop

SpecRegion == InitCrop /\ [][NextRegion]_vars

\* The crop session with its commit: ratio buttons, Finalize Crop, the load of
\* the source ending either way, Discard Changes and re-entry.
NextCommit ==
  \/ StartCropCurrent
  \/ DiscardCrop
  \/ \E r \in Ratios : updateCropBox(r)
  \/ executeCrop
  \/ \E k \in DOMAIN loads, realW \in SourceDims, realH \in SourceDims :
       CropLoaded(k, nextImage, realW, realH)
  \/ \E k \in DOMAIN loads : CropLoadError(k)

SpecCommit == InitCrop /\ [][NextCommit]_vars

\* The zoom viewer on an uploaded image: entry, wheel, buttons, pointer and
\* close.
InitZoom ==
  /\ mode = IDLE
  /\ prompt = ""
  /\ currentImage = [url |-> 1, base64 |-> 1, beforeUrl |-> Null,
                     resolution |-> "Original", isUpscaled |-> FALSE]
  /\ batchQueue = <<1>>
  /\ items = <<[url |-> 1, base64 |-> 1, status |-> "idle",
                resolution |-> "Original", upscaleType |-> "none",
                error |-> "none"]>>
  /\ results = <<>>
  /\ history = <<>>
  /\ error = NoError
  /\ isComparing = FALSE
  /\ calls = {}
  /\ reads = <<>>
  /\ loads = <<>>
  /\ nextCall = 1
  /\ nextResult = 1
  /\ nextImage = 2
  /\ cropData = NoCrop
  /\ cropRatio = "1:1"
  /\ cropPos = InitialPos
  /\ cropSize = InitialSize
  /\ activeHandle = NoHandle
  /\ cropHistory = <<>>
  /\ cropHistoryIndex = -1
  /\ cropMoves = 0
  /\ cropReleased = FALSE
  /\ cropDiscarded = 0
  /\ cropOutput = NoOutput
  /\ zoomScale = 10
  /\ zoomTranslate = [x |-> 0, y |-> 0]
  /\ isPanning = FALSE
  /\ comparePosition = 5000
  /\ InitMaskCanvas

NextZoom ==
  \/ startZoom
  \/ CloseZoom
  \/ \E deltaY \in WheelDeltas : handleZoomWheel(deltaY)
  \/ ZoomOutButton
  \/ ResetZoomButton
  \/ ZoomInButton
  \/ handleZoomMouseDown
  \/ \E movementX \in Movements, movementY \in Movements :
       handleZoomMouseMove(movementX, movementY)
  \/ handleZoomMouseUp

SpecZoom == InitZoom /\ [][NextZoom]_vars

\* The comparison slider on an edited image (the edit switched comparison
\* on): the toggle and the pointer over and beyond the surface.
InitCompare ==
  /\ mode = IDLE
  /\ prompt = "a cat"
  /\ currentImage = [url |-> 2, base64 |-> 2, beforeUrl |-> 1,
                     resolution |-> "1K", isUpscaled |-> FALSE]
  /\ batchQueue = <<1>>
  /\ items = <<[url |-> 1, base64 |-> 1, status |-> "idle",
                resolution |-> "Original", upscaleType |-> "none",
                error |-> "none"]>>
  /\ results = <<>>
  /\ history = <<[url |-> 2, prompt |-> EditOf("a cat")]>>
  /\ error = NoError
  /\ isComparing = TRUE
  /\ calls = {}
  /\ reads = <<>>
  /\ loads = <<>>
  /\ nextCall = 2
  /\ nextResult = 1
  /\ nextImage = 3
  /\ cropData = NoCrop
  /\ cropRatio = "1:1"
  /\ cropPos = InitialPos
  /\ cropSize = InitialSize
  /\ activeHandle = NoHandle
  /\ cropHistory = <<>>
  /\ cropHistoryIndex = -1
  /\ cropMoves = 0
  /\ cropReleased = FALSE
  /\ cropDiscarded = 0
  /\ cropOutput = NoOutput
  /\ zoomScale = 10
  /\ zoomTranslate = [x |-> 0, y |-> 0]
  /\ isPanning = FALSE
  /\ comparePosition = 5000
  /\ InitMaskCanvas

NextCompare ==
  \/ ToggleCompare
  \/ \E left \in SurfaceLefts, width \in SurfaceWidths :
       \E x \in ClientXs(left, width) : handleComparisonMove(x, left, width)

SpecCompare == InitCompare /\ [][NextCompare]_vars

\* The mask painter on its own, from the state in which one uploaded file is
\* the current image: entry, the initialisation timer, strokes, Clear, the
\* brush slider, Cancel and "Execute Erase".
InitMask ==
  /\ mode = IDLE
  /\ prompt = ""
  /\ currentImage = [url |-> 1, base64 |-> 1, beforeUrl |-> Null,
                     resolution |-> "Original", isUpscaled |-> FALSE]
  /\ batchQueue = <<1>>
  /\ items = <<[url |-> 1, base64 |-> 1, status |-> "idle",
                resolution |-> "Original", upscaleType |-> "none",
                error |-> "none"]>>
  /\ results = <<>>
  /\ history = <<>>
  /\ error = NoError
  /\ isComparing = FALSE
  /\ calls = {}
  /\ reads = <<>>
  /\ loads = <<>>
  /\ nextCall = 1
  /\ nextResult = 1
  /\ nextImage = 2
  /\ cropData = NoCrop
  /\ cropRatio = "1:1"
  /\ cropPos = InitialPos
  /\ cropSize = InitialSize
  /\ activeHandle = NoHandle
  /\ cropHistory = <<>>
  /\ cropHistoryIndex = -1
  /\ cropMoves = 0
  /\ cropReleased = FALSE
  /\ cropDiscarded = 0
  /\ cropOutput = NoOutput
  /\ zoomScale = 10
  /\ zoomTranslate = [x |-> 0, y |-> 0]
  /\ isPanning = FALSE
  /\ comparePosition = 5000
  /\ InitMaskCanvas

NextMask ==
  \/ startMagicHand
  \/ CancelMagicHand
  \/ MagicInitTimer
  \/ \E x \in MaskCells : handleMagicHandDraw(x)
  \/ \E x \in MaskCells : MagicHandDown(x)
  \/ stopMagicHandDraw
  \/ clearMagicHand
  \/ \E b \in 1..MaxBrush : setBrushSize(b)
  \/ castMagicHand
  \/ \E c \in calls : MagicHandResolve(c, nextImage)
  \/ \E c \in calls, msg \in ServiceMessages : MagicHandReject(c, msg)
  \/ DismissError

SpecMask == InitMask /\ [][NextMask]_vars

\* Batch runs over a queue of MaxQueue uploaded images, with the 4K upscale of
\* the current image (whose key check is awaited before the mode is set) and
\* the error banner.
IdleItem(a) ==
  [url |-> a, base64 |-> a, status |-> "idle", resolution |-> "Original",
   upscaleType |-> "none", error |-> "none"]

InitBatch ==
  /\ mode = IDLE
  /\ prompt = ""
  /\ currentImage = [url |-> 1, base64 |-> 1, beforeUrl |-> Null,
                     resolution |-> "Original", isUpscaled |-> FALSE]
  /\ batchQueue = [a \in 1..MaxQueue |-> a]
  /\ items = [a \in 1..MaxQueue |-> IdleItem(a)]
  /\ results = <<>>
  /\ history = <<>>
  /\ error = NoError
  /\ isComparing = FALSE
  /\ calls = {}
  /\ reads = <<>>
  /\ loads = <<>>
  /\ nextCall = 1
  /\ nextResult = 1
  /\ nextImage = MaxQueue + 1
  /\ cropData = NoCrop
  /\ cropRatio = "1:1"
  /\ cropPos = InitialPos
  /\ cropSize = InitialSize
  /\ activeHandle = NoHandle
  /\ cropHistory = <<>>
  /\ cropHistoryIndex = -1
  /\ cropMoves = 0
  /\ cropReleased = FALSE
  /\ cropDiscarded = 0
  /\ cropOutput = NoOutput
  /\ zoomScale = 10
  /\ zoomTranslate = [x |-> 0, y |-> 0]
  /\ isPanning = FALSE
  /\ comparePosition = 5000
  /\ InitMaskCanvas

NextBatch ==
  \/ StartBatch(MaxBatchCalls)
  \/ \E c \in calls : BatchItemResolve(c, nextImage)
  \/ \E c \in calls, msg \in ServiceMessages : BatchItemReject(c, msg)
  \/ \E aistudio \in BOOLEAN : handleUpscale4K(aistudio)
  \/ \E c \in calls, outcome \in Outcomes : KeyCheckSettle(c, outcome)
  \/ \E c \in calls : SelectKeySettle(c)
  \/ \E c \in calls : Upscale4KResolve(c, nextImage)
  \/ \E c \in calls, msg \in ServiceMessages : Upscale4KReject(c, msg)
  \/ \E c \in calls, ok \in BOOLEAN : ReselectSettle(c, ok)
  \/ DismissError

SpecBatch == InitBatch /\ [][NextBatch]_vars

\* Batch runs on their own over a queue of MaxQueue uploaded images: a run,
\* and the runs after it that retry what failed.
NextRun ==
  \/ handleBatchUpscale
  \/ \E c \in calls : BatchItemResolve(c, nextImage)
  \/ \E c \in calls, msg \in ServiceMessages : BatchItemReject(c, msg)

SpecRun == InitBatch /\ [][NextRun]_vars

\* The queue while batch runs are under way: thumbnails are removed, the queue
\* is cleared and more files are uploaded while a run awaits the service.
NextQueue ==
  \/ handleBatchUpscale
  \/ \E c \in calls : BatchItemResolve(c, nextImage)
  \/ \E c \in calls, msg \in ServiceMessages : BatchItemReject(c, msg)
  \/ \E k \in DOMAIN batchQueue : removeFromBatch(k)
  \/ ClearBatchQueue
  \/ \E n \in 1..MaxFiles : FileUpload(n, MaxQueue + MaxFiles)
  \/ \E k \in DOMAIN reads : FileLoaded(k)

SpecQueue == InitBatch /\ [][NextQueue]_vars

\* The session history near its cap: the state after n successful generations
\* from the prompt "a cat" (images 1..n), for every n up to the cap, and from
\* there generate and edit with every outcome and the selection of an entry.
Generated(n) ==
  IF n = 0
  THEN [url |-> Null, base64 |-> Null, beforeUrl |-> Null,
        resolution |-> "1K", isUpscaled |-> FALSE]
  ELSE [url |-> n, base64 |-> n, beforeUrl |-> Null,
        resolution |-> "1K", isUpscaled |-> FALSE]

InitHistory ==
  /\ mode = IDLE
  /\ prompt = "a cat"
  /\ \E n \in 0..HistoryCap :
       /\ currentImage = Generated(n)
       /\ history = [i \in 1..n |-> [url |-> n + 1 - i, prompt |-> Typed("a cat")]]
       /\ nextImage = n + 1
  /\ batchQueue = <<>>
  /\ items = <<>>
  /\ results = <<>>
  /\ error = NoError
  /\ isComparing = FALSE
  /\ calls = {}
  /\ reads = <<>>
  /\ loads = <<>>
  /\ nextCall = 1
  /\ nextResult = 1
  /\ cropData = NoCrop
  /\ cropRatio = "1:1"
  /\ cropPos = InitialPos
  /\ cropSize = InitialSize
  /\ activeHandle = NoHandle
  /\ cropHistory = <<>>
  /\ cropHistoryIndex = -1
  /\ cropMoves = 0
  /\ cropReleased = FALSE
  /\ cropDiscarded = 0
  /\ cropOutput = NoOutput
  /\ zoomScale = 10
  /\ zoomTranslate = [x |-> 0, y |-> 0]
  /\ isPanning = FALSE
  /\ comparePosition = 5000
  /\ InitMaskCanvas

NextHistory ==
  \/ HandleGenerate
  \/ \E c \in calls : GenerateResolve(c, nextImage)
  \/ \E c \in calls, msg \in ServiceMessages : GenerateReject(c, msg)
  \/ HandleEdit
  \/ \E c \in calls : EditResolve(c, nextImage)
  \/ \E c \in calls, msg \in ServiceMessages : EditReject(c, msg)
  \/ \E k \in DOMAIN history : SelectHistory(k)

SpecHistory == InitHistory /\ [][NextHistory]_vars

\* Uploads of up to MaxUpload files, in one file dialog or in several, whose
\* reads end in any order, with image generation beside them.
NextUpload ==
  \/ \E n \in 1..MaxUpload : FileUpload(n, MaxUpload)
  \/ \E k \in DOMAIN reads : FileLoaded(k)
  \/ \E p \in PromptTexts : SetPrompt(p)
  \/ HandleGenerate
  \/ \E c \in calls : GenerateResolve(c, nextImage)
  \/ \E c \in calls, msg \in ServiceMessages : GenerateReject(c, msg)

SpecUpload == Init /\ [][NextUpload]_vars

\* Drags in the crop session: handle-down, up to MaxDrag pointer moves, release.
NextDrag ==
  \/ \E h \in Handles : SetActiveHandle(h)
  \/ \E x \in PointerCoords, y \in PointerCoords : CropMouseMove(x, y, MaxDrag)
  \/ CropPointerUp

SpecDrag == InitCrop /\ [][NextDrag]_vars

\* The crop history as a stack: pushes of square regions and of the ratio
\* buttons' regions, undo and redo, from a fresh session.
NextStack ==
  \/ \E edge \in PushSizes : PushRegion(edge)
  \/ \E r \in Ratios : updateCropBox(r)
  \/ undoCrop
  \/ redoCrop

SpecStack == InitCrop /\ [][NextStack]_vars

\* Crop sessions one after the other on the current image and on a result:
\* the state after an upload and a 4K upscale of it, then entry, ratio
\* buttons, cancel, commit and the load of a 1000 x 1000 source.
InitSession ==
  /\ mode = IDLE
  /\ prompt = ""
  /\ currentImage = [url |-> 2, base64 |-> 2, beforeUrl |-> 1,
                     resolution |-> "4K", isUpscaled |-> TRUE]
  /\ batchQueue = <<1>>
  /\ items = <<IdleItem(1)>>
  /\ results = addResult(<<>>, 1, 2, 2, "4K", "Pro 4K")
  /\ history = addToHistory(<<>>, 2, Fixed("Pro 4K Enhancement"))
  /\ error = NoError
  /\ isComparing = TRUE
  /\ calls = {}
  /\ reads = <<>>
  /\ loads = <<>>
  /\ nextCall = 2
  /\ nextResult = 2
  /\ nextImage = 3
  /\ cropData = NoCrop
  /\ cropRatio = "1:1"
  /\ cropPos = InitialPos
  /\ cropSize = InitialSize
  /\ activeHandle = NoHandle
  /\ cropHistory = <<>>
  /\ cropHistoryIndex = -1
  /\ cropMoves = 0
  /\ cropReleased = FALSE
  /\ cropDiscarded = 0
  /\ cropOutput = NoOutput
  /\ zoomScale = 10
  /\ zoomTranslate = [x |-> 0, y |-> 0]
  /\ isPanning = FALSE
  /\ comparePosition = 5000
  /\ InitMaskCanvas

NextSession ==
  \/ StartCropCurrent
  \/ \E k \in DOMAIN results : StartCropResult(k)
  \/ DiscardCrop
  \/ \E r \in Ratios : updateCropBox(r)
  \/ executeCrop
  \/ \E k \in DOMAIN loads : CropLoaded(k, nextImage, 1000, 1000)

SpecSession == InitSession /\ [][NextSession]_vars

\* "Finalize Crop" clicked more than once in a crop session on a library
\* entry, before the first load has closed the session.
NextFinalize ==
  \/ \E k \in DOMAIN results : StartCropResult(k)
  \/ \E r \in Ratios : updateCropBox(r)
  \/ FinalizeCrop(MaxLoads + 1)
  \/ \E k \in DOMAIN loads : CropLoaded(k, nextImage, 1000, 1000)

SpecFinalize == InitSession /\ [][NextFinalize]_vars

\* The operations on their own: prompt, upload, the six service operations
\* with every way their promises settle, and the error banner.
NextOps ==
  \/ \E p \in PromptTexts : SetPrompt(p)
  \/ HandleGenerate
  \/ \E c \in calls : GenerateResolve(c, nextImage)
  \/ \E c \in calls, msg \in ServiceMessages : GenerateReject(c, msg)
  \/ HandleEdit
  \/ \E c \in calls : EditResolve(c, nextImage)
  \/ \E c \in calls, msg \in ServiceMessages : EditReject(c, msg)
  \/ HandleRemoveWatermark
  \/ \E c \in calls : RemoveWatermarkResolve(c, nextImage)
  \/ \E c \in calls, msg \in ServiceMessages : RemoveWatermarkReject(c, msg)
  \/ startMagicHand
  \/ castMagicHand
  \/ \E c \in calls : MagicHandResolve(c, nextImage)
  \/ \E c \in calls, msg \in ServiceMessages : MagicHandReject(c, msg)
  \/ \E aistudio \in BOOLEAN : handleUpscale4K(aistudio)
  \/ \E c \in calls, outcome \in Outcomes : KeyCheckSettle(c, outcome)
  \/ \E c \in calls : SelectKeySettle(c)
  \/ \E c \in calls : Upscale4KResolve(c, nextImage)
  \/ \E c \in calls, msg \in ServiceMessages : Upscale4KReject(c, msg)
  \/ \E c \in calls, ok \in BOOLEAN : ReselectSettle(c, ok)
  \/ handleBatchUpscale
  \/ \E c \in calls : BatchItemResolve(c, nextImage)
  \/ \E c \in calls, msg \in ServiceMessages : BatchItemReject(c, msg)
  \/ \E n \in 1..MaxFiles : handleFileUpload(n)
  \/ \E k \in DOMAIN reads : FileLoaded(k)
  \/ DismissError

SpecOps == Init /\ [][NextOps]_vars

\* ---- properties ---------------------------------------------------------------
Interactive == {CROPPING, ZOOMING, MAGIC_HAND}

\* The facts of which the coordinator is meant to allow one at a time.
Active ==
  (IF mode = CROPPING THEN {"crop"} ELSE {})
    \cup (IF mode = ZOOMING THEN {"zoom"} ELSE {})
    \cup (IF mode = MAGIC_HAND THEN {"mask"} ELSE {})
    \cup (IF Pending # {} THEN {"call"} ELSE {})

\* The service call of handler c settles in this step and delivers no image.
CallFails(c) == c \in Pending /\ c \notin Pending' /\ nextImage' = nextImage

\* Handler c runs to its end in this step and the service delivered no image.
EndsInFailure(c) ==
  /\ c \in calls
  /\ \A d \in calls' : d.id # c.id
  /\ nextImage' = nextImage

\* The service call of handler c settles in this step and delivers an image.
CallSucceeds(c) == c \in Pending /\ c \notin Pending' /\ nextImage' = nextImage + 1

\* C1: in every reachable state at most one of these holds: a crop session is
\* active, the zoom viewer is active, mask painting is active, an external
\* service call is pending (its promise has not settled).
C1_AtMostOneActive == Cardinality(Active) <= 1

\* C2: the mode becomes CROPPING, ZOOMING or MAGIC_HAND only in a step whose
\* source mode is IDLE, and never while a service call is pending.
C2_InteractiveOnlyFromIdle ==
  [][mode' \in Interactive /\ mode' # mode => mode = IDLE /\ Pending = {}]_vars

\* C3: at any instant at most one external-service call started from the
\* workspace is in flight.
C3_OneCallInFlight == Cardinality(Pending) <= 1

\* C4: when an operation's handler ends after its call failed, the mode it
\* leaves is IDLE.
C4_FailureEndsIdle ==
  [][\A c \in calls : EndsInFailure(c) => mode' = IDLE]_vars

\* C5: the handling of a failed call writes no artifact: the step in which the
\* call fails, and the step in which the handler ends after a failure, leave
\* currentImage, the result library and the session history as they were, and
\* the failing batch item keeps its url and base64.
C5_FailureLeavesArtifacts ==
  [][\A c \in calls :
       CallFails(c) \/ EndsInFailure(c) =>
         /\ currentImage' = currentImage
         /\ results' = results
         /\ history' = history
         /\ c.kind = "batch" /\ c.pc = "call" =>
              /\ items'[c.queue[c.i]].url = items[c.queue[c.i]].url
              /\ items'[c.queue[c.i]].base64 = items[c.queue[c.i]].base64]_vars

\* C5, reached: an edit has failed without a message while a current image, a
\* library entry and a history entry exist.
C5_Reached ==
  /\ error = "Failed to edit"
  /\ currentImage.url # Null
  /\ results # <<>>
  /\ history # <<>>

\* C6: when generate, edit, watermark removal, masked erase or 4K upscale
\* fails, the handler ends with the mode ERROR and a message shown.
C6_FailureEntersError ==
  [][\A c \in calls :
       EndsInFailure(c) /\ c.kind # "batch" =>
         mode' = ERROR /\ error' # NoError]_vars

\* C7: dismissing the error banner in mode ERROR sets the mode to IDLE.
C7_DismissReturnsToIdle ==
  [][mode = ERROR /\ DismissError => mode' = IDLE]_vars

\* C8: a call of edit, watermark removal, masked erase or 4K upscale that
\* completes after the current image was replaced by another one does not
\* write the current image.
C8_StaleCompletionDiscarded ==
  [][\A c \in calls :
       /\ CallSucceeds(c)
       /\ c.kind \in {"edit", "watermark", "magic", "upscale4k"}
       /\ currentImage.url # c.img.url
       => currentImage' = currentImage]_vars

\* C9: a push in a crop session leaves exactly the entries 0..index-before-push
\* followed by the new state, with the index at the last position.  (The ratio
\* buttons are the only bound trigger of a push.)
C9_PushCutsForwardBranch ==
  [][(\E r \in Ratios : updateCropBox(r)) =>
       /\ cropHistory' =
            Append(SubSeq(cropHistory, 1, cropHistoryIndex + 1),
                   [pos |-> cropPos', size |-> cropSize', ratio |-> cropRatio'])
       /\ cropHistoryIndex' = Len(cropHistory') - 1]_vars

\* C9, reached: the latest push cut off entries that an undo had left ahead of
\* the index.
C9_Reached ==
  /\ mode = CROPPING
  /\ cropDiscarded > 0
  /\ Len(cropHistory) = 2
  /\ cropHistoryIndex = 1

\* C10: in every state of a crop session in which undo is possible, undoCrop
\* followed by redoCrop gives back the position, size, ratio and index.
C10_UndoRedoRoundTrip ==
  mode = CROPPING /\ cropHistoryIndex > 0 =>
    Redone(Undone(CropState)) = CropState

\* C11: with a non-empty crop history the index is within 0..length-1; undoCrop
\* and redoCrop leave the entries as they are; undoCrop at index 0 and redoCrop
\* at the last index change nothing.
C11_IndexWithinHistory ==
  /\ [](cropHistory # <<>> =>
          /\ 0 <= cropHistoryIndex /\ cropHistoryIndex <= Len(cropHistory) - 1
          /\ cropHistoryIndex = 0 => Undone(CropState) = CropState
          /\ cropHistoryIndex = Len(cropHistory) - 1 =>
               Redone(CropState) = CropState)
  /\ [][undoCrop \/ redoCrop => cropHistory' = cropHistory]_vars

\* C11, reached: two undos have moved the index from the last of three entries
\* to the first.
C11_Reached ==
  /\ mode = CROPPING
  /\ Len(cropHistory) = 3
  /\ cropHistoryIndex = 0

\* The region lies inside the canvas 0..100 %, up to one unit (1/100 %) of the
\* fixed-point rounding of the centre.
InCanvas(pos, size) ==
  /\ 2 * pos.x - size.w >= -1
  /\ 2 * pos.x + size.w <= 20001
  /\ 2 * pos.y - size.h >= -1
  /\ 2 * pos.y + size.h <= 20001

\* C12: after any sequence of crop operations the crop region lies inside the
\* normalized canvas, for pointer positions inside or outside the container.
C12_RegionInsideCanvas == mode = CROPPING => InCanvas(cropPos, cropSize)

\* size.w / size.h is exactly the locked ratio (cross-multiplied).
ExactRatio(size, ratio) ==
  IF ratio = "1:1" THEN size.w = size.h
  ELSE IF ratio = "16:9" THEN 9 * size.w = 16 * size.h
  ELSE IF ratio = "9:16" THEN 16 * size.w = 9 * size.h
  ELSE TRUE

\* C13: with a ratio lock other than Free, the region at rest has size.w /
\* size.h equal to the locked ratio.  Stated for the sessions without a pointer
\* move, whose sizes are the literals of startCrop and updateCropBox (brought
\* back by undo and redo) and carry no rounding of the fixed-point drag
\* arithmetic.
C13_LockedRatioAtRest ==
  mode = CROPPING /\ cropRatio # "Free" /\ cropMoves = 0 =>
    ExactRatio(cropSize, cropRatio)

\* Twice the right and the bottom edge of a region.
Right2(pos, size) == 2 * pos.x + size.w
Bottom2(pos, size) == 2 * pos.y + size.h

\* a and b differ by at most one unit of the fixed-point rounding of the
\* centre (two units of the doubled edge).
Near(a, b) == a - b <= 2 /\ b - a <= 2

\* C14: from an in-bounds region, a pointer move with active handle tl and
\* ratio lock 1:1 yields size.w = size.h and leaves the bottom-right corner
\* where it was, also when the height is re-clamped at the top bound.
C14_TopLeftKeepsBottomRight ==
  [][(/\ activeHandle = "tl" /\ cropRatio = "1:1"
      /\ InCanvas(cropPos, cropSize)
      /\ \E x \in PointerCoords, y \in PointerCoords : CropMouseMove(x, y, MaxDrag))
     => /\ cropSize'.w = cropSize'.h
        /\ Near(Right2(cropPos', cropSize'), Right2(cropPos, cropSize))
        /\ Near(Bottom2(cropPos', cropSize'), Bottom2(cropPos, cropSize))]_vars

\* The source rectangle and the canvas of a finished load, from the region
\* that Finalize Crop captured: width and height are size/100 of the source,
\* the rectangle is centred at pos/100 of the source, and the canvas has the
\* whole pixels of width and height.
CommitExtracts(l, realW, realH, o) ==
  /\ o.width = l.size.w * realW * (PxScale \div 10000)
  /\ o.height = l.size.h * realH * (PxScale \div 10000)
  /\ 2 * o.x + o.width = 4 * l.pos.x * realW
  /\ 2 * o.y + o.height = 4 * l.pos.y * realH
  /\ o.canvasWidth * PxScale <= o.width
  /\ o.width < (o.canvasWidth + 1) * PxScale
  /\ o.canvasHeight * PxScale <= o.height
  /\ o.height < (o.canvasHeight + 1) * PxScale

\* C15 (amended): committing a crop extracts the rectangle width = size.w/100 *
\* W, height = size.h/100 * H, x = pos.x/100 * W - width/2, y = pos.y/100 * H -
\* height/2 at scale 1; the output has floor(width) x floor(height) pixels,
\* which is width x height when these are whole numbers.
C15_CommitExtractsRegion ==
  [][\A k \in DOMAIN loads, realW \in SourceDims, realH \in SourceDims :
       CropLoaded(k, nextImage, realW, realH) =>
         CommitExtracts(loads[k], realW, realH, cropOutput')]_vars

\* C15, reached: a 1000 x 1000 source committed with centre (50,50) and size
\* (40,40) gave 400 x 400 pixels taken from (300,300).
C15_Reached ==
  /\ mode = IDLE
  /\ cropOutput = [x |-> 300 * PxScale, y |-> 300 * PxScale,
                   width |-> 400 * PxScale, height |-> 400 * PxScale,
                   canvasWidth |-> 400, canvasHeight |-> 400]

\* C15 (as stated): the output dimensions are equal to width x height.
C15_OutputEqualsRectangle ==
  /\ cropOutput.canvasWidth * PxScale = cropOutput.width
  /\ cropOutput.canvasHeight * PxScale = cropOutput.height

\* C16: a cancelled crop session produces no artifact: Discard Changes sets
\* the mode to IDLE, and with the session cancelled (in the sessions modelled
\* here the mode is IDLE with a load pending only after a cancel) no step
\* changes the current image, the result library or the batch queue, whenever
\* the load started by an earlier Finalize Crop completes.
C16_CancelProducesNoArtifact ==
  [][/\ DiscardCrop => mode' = IDLE
     /\ mode = IDLE /\ loads # <<>> =>
          /\ currentImage' = currentImage
          /\ results' = results
          /\ batchQueue' = batchQueue
          /\ items' = items]_vars

\* The operations that replace the current image with the result of a service
\* call.
Replacing == {"edit", "watermark", "magic", "upscale4k"}

\* C17: after each successful operation that replaces the current image (edit,
\* watermark removal, masked erase, 4K upscale, crop of the current image) the
\* comparison source currentImage.beforeUrl is the url the current-image slot
\* held immediately before that replacement.
C17_BeforeUrlIsReplacedUrl ==
  [][/\ \A c \in calls :
          c.kind \in Replacing /\ CallSucceeds(c) =>
            currentImage'.beforeUrl = currentImage.url
     /\ Len(loads') < Len(loads) /\ currentImage'.url # currentImage.url =>
          currentImage'.beforeUrl = currentImage.url]_vars

\* C18: in every reachable state of the zoom viewer, zoomScale is within
\* [0.5, 10], for every sequence of wheel events and of the -, Reset and +
\* buttons.
C18_ZoomScaleClamped ==
  mode = ZOOMING => ZoomMin <= zoomScale /\ zoomScale <= ZoomMax

\* The viewer is open at the lower limit with the image dragged away from the
\* centre (so the scale went above 1 and came all the way down).
C18_Reached ==
  mode = ZOOMING /\ zoomScale = ZoomMin /\ zoomTranslate.x = MaxPan

\* C19: the Reset control, which sets the scale to 1, also sets zoomTranslate
\* to (0,0), whatever translation earlier panning accumulated.
C19_ResetCentres ==
  [][ResetZoomButton => zoomTranslate' = [x |-> 0, y |-> 0]]_vars

\* C20: panning happens only while the scale is above 1: a pointer move changes
\* zoomTranslate only if zoomScale > 1 at that moment, also for a pan begun
\* above 1 when wheel events have since brought the scale to 1 or below.
C20_PanOnlyAboveOne ==
  [][(/\ \E movementX \in Movements, movementY \in Movements :
           handleZoomMouseMove(movementX, movementY)
      /\ zoomTranslate' # zoomTranslate) => zoomScale > 10]_vars

\* C21: comparePosition is within [0,100] in every reachable state, and for
\* every pointer X, also left of or right of the comparison surface,
\* handleComparisonMove stores 100*(x - left)/width limited to [0,100]: 0 for
\* every X left of the surface, 100 for every X right of it.
C21_ComparePositionClamped ==
  [][/\ 0 <= comparePosition' /\ comparePosition' <= 10000
     /\ \A left \in SurfaceLefts, width \in SurfaceWidths :
          \A x \in ClientXs(left, width) :
            handleComparisonMove(x, left, width) =>
              /\ x <= left => comparePosition' = 0
              /\ x >= left + width => comparePosition' = 10000
              /\ x > left /\ x < left + width =>
                   /\ comparePosition' * width <= (x - left) * 10000
                   /\ (x - left) * 10000 < (comparePosition' + 1) * width]_vars

\* The slider is at the left limit although the comparison was last shown
\* elsewhere: a pointer left of the surface put it there.
C21_Reached == isComparing /\ comparePosition = 0

\* The batch upscale calls that have not settled, and the items marked
\* processing.
BatchCalls == {c \in Pending : c.kind = "batch"}
Processing == {a \in DOMAIN items : items[a].status = "processing"}

\* C22: a batch run processes the queue strictly one item at a time in array
\* order: at every instant at most one item has status processing and at most
\* one batch upscale call is in flight, and the call for a later item starts
\* only in the step in which the call before it settles.
C22_BatchOneAtATime ==
  /\ [](Cardinality(Processing) <= 1 /\ Cardinality(BatchCalls) <= 1)
  /\ [][\A c \in BatchCalls, d \in BatchCalls' :
          d.id = c.id /\ d.i # c.i =>
            /\ d.i > c.i
            /\ \A j \in (c.i + 1)..(d.i - 1) :
                 items'[c.queue[j]].status = "done"]_vars

\* The run of handler c goes on after this step with the first item behind
\* position c.i that is not done, or ends with the mode IDLE when there is none.
RunContinues(c) ==
  LET j == NextToProcess(items', c.queue, c.i + 1)
  IN  IF \E k \in (c.i + 1)..Len(c.queue) : items[c.queue[k]].status # "done"
      THEN /\ j # 0
           /\ items'[c.queue[j]].status = "processing"
           /\ \E d \in BatchCalls' : d.id = c.id /\ d.i = j
      ELSE mode' = IDLE /\ \A d \in calls' : d.id # c.id

\* C23: in a batch run, a failure on one item marks exactly that item error
\* with the failure's message and the run continues with the following items;
\* a success marks its item done and attaches no message; so when the run over
\* a queue of idle items ends, every item is done or error, and the items that
\* carry an error message are exactly the ones that failed.
C23_FailureMarksOneItem ==
  [][/\ \A c \in BatchCalls, msg \in ServiceMessages :
          BatchItemReject(c, msg) =>
            /\ items'[c.queue[c.i]].status = "error"
            /\ items'[c.queue[c.i]].error = msg
            /\ \A a \in DOMAIN items :
                 a # c.queue[c.i] => items'[a].error = items[a].error
            /\ RunContinues(c)
     /\ \A c \in BatchCalls :
          BatchItemResolve(c, nextImage) =>
            /\ items'[c.queue[c.i]].status = "done"
            /\ \A a \in DOMAIN items : items'[a].error = items[a].error
            /\ RunContinues(c)
     /\ \A c \in BatchCalls :
          c.id = 1 /\ (\A d \in calls' : d.id # c.id) =>
            \A a \in DOMAIN items' :
              /\ items'[a].status \in {"done", "error"}
              /\ items'[a].status = "error" <=> items'[a].error # "none"]_vars

\* The first run over three idle items is over, only the second item failed:
\* the statuses are done, error, done and the message is on the second item.
C23_Reached ==
  /\ mode = IDLE /\ calls = {} /\ nextCall = 2 /\ Len(items) >= 3
  /\ items[1].status = "done" /\ items[1].error = "none"
  /\ items[2].status = "error" /\ items[2].error = NotFoundMessage
  /\ items[3].status = "done" /\ items[3].error = "none"

\* C24: the session history never holds more than 20 entries and is ordered
\* most recent first (images are numbered in the order they are delivered):
\* each addToHistory puts the new entry at the front, keeps the earlier
\* entries in their order behind it and, when the list would exceed 20, drops
\* the oldest entries from the end.
C24_HistoryCappedNewestFirst ==
  /\ [](/\ Len(history) <= 20
        /\ \A i, j \in DOMAIN history : i < j => history[i].url > history[j].url)
  /\ [][history' # history =>
          /\ history'[1].url = nextImage
          /\ Len(history') = Min(20, Len(history) + 1)
          /\ \A i \in 2..Len(history') : history'[i] = history[i - 1]]_vars

\* The history is full and its oldest entry is no longer the first image
\* generated: an entry was dropped from the end.
C24_Reached == Len(history) = 20 /\ history[20].url > 1

\* C25: when a file finishes reading, it becomes the current image if no image
\* is loaded, an image that is already loaded is not replaced by it (so of
\* several files ingested in one upload only the first delivered becomes the
\* current image), and the file becomes a batch-queue entry with status idle.
C25_FirstFileBecomesCurrent ==
  [][\A k \in DOMAIN reads :
       FileLoaded(k) =>
         /\ currentImage.url = Null => currentImage'.url = reads[k].img
         /\ currentImage.url # Null => currentImage' = currentImage
         /\ Len(batchQueue') = Len(batchQueue) + 1
         /\ items'[batchQueue'[Len(batchQueue')]] = IdleItem(reads[k].img)]_vars

\* C26: every drag that ends with a handle release pushes the final region to
\* the crop history exactly once and the pointer moves of the drag push
\* nothing: after a handle-down and its moves, the release makes the history
\* one entry longer (the history is below its cap here) and the new last
\* entry, which the index selects, is the region at release.
C26_ReleasePushesOnce ==
  [][/\ (CropPointerUp /\ activeHandle # NoHandle /\ ~cropReleased) =>
          /\ Len(cropHistory') = cropHistoryIndex + 2
          /\ cropHistoryIndex' = cropHistoryIndex + 1
          /\ cropHistory'[cropHistoryIndex' + 1] =
               [pos |-> cropPos, size |-> cropSize, ratio |-> cropRatio]
     /\ (\E x \in PointerCoords, y \in PointerCoords :
           CropMouseMove(x, y, MaxDrag)) => cropHistory' = cropHistory]_vars

\* C27: releasing a handle clears the active handle: after a pointer release
\* in crop mode activeHandle is null, and pointer moves leave the crop position
\* and size unchanged until the next handle-down.
C27_ReleaseClearsHandle ==
  /\ [](mode = CROPPING /\ cropReleased => activeHandle = NoHandle)
  /\ [][cropReleased /\ cropReleased' =>
          cropPos' = cropPos /\ cropSize' = cropSize]_vars

\* C28: after any corner-handle pointer move both edges of the crop region are
\* at least 5 percentage units long, for every handle, every pointer position
\* and every ratio lock.
C28_MinimumEdge ==
  [][(/\ activeHandle \in {"tl", "tr", "bl", "br"}
      /\ \E x \in PointerCoords, y \in PointerCoords :
           CropMouseMove(x, y, MaxDrag))
       => cropSize'.w >= 500 /\ cropSize'.h >= 500]_vars

\* The entry of a square region of the given edge at the centre under 1:1.
Square(edge) ==
  [pos |-> InitialPos, size |-> [w |-> edge, h |-> edge], ratio |-> "1:1"]

\* The single entry of a fresh session.
Fresh == [pos |-> InitialPos, size |-> InitialSize, ratio |-> "1:1"]

\* The history is the given one and the index selects its entry i (from 0).
StackIs(h, i) == cropHistory = h /\ cropHistoryIndex = i

\* C29: starting from a fresh history (the single entry of the default
\* region), push 40x40, push 30x30, undo, push 20x20 leaves a history of
\* length 3 (the fresh entry, 40x40 and 20x20) with current index 2, and a
\* following redo changes nothing. Each line is one step of the sequence, from
\* the state the line before it leaves.
C29_PushPushUndoPush ==
  [][/\ (StackIs(<<Fresh>>, 0) /\ PushRegion(4000)) =>
          StackIs(<<Fresh, Square(4000)>>, 1)'
     /\ (StackIs(<<Fresh, Square(4000)>>, 1) /\ PushRegion(3000)) =>
          StackIs(<<Fresh, Square(4000), Square(3000)>>, 2)'
     /\ (StackIs(<<Fresh, Square(4000), Square(3000)>>, 2) /\ undoCrop) =>
          /\ StackIs(<<Fresh, Square(4000), Square(3000)>>, 1)'
          /\ cropSize' = [w |-> 4000, h |-> 4000]
     /\ (/\ StackIs(<<Fresh, Square(4000), Square(3000)>>, 1)
         /\ PushRegion(2000)) =>
          /\ StackIs(<<Fresh, Square(4000), Square(2000)>>, 2)'
          /\ Len(cropHistory') = 3
          /\ Redone(CropState)' = CropState']_vars

\* The sequence has run: the history is the fresh entry, 40x40 and 20x20, the
\* index is 2 and the last push cut off one entry (30x30).
C29_Reached ==
  /\ mode = CROPPING
  /\ StackIs(<<Fresh, Square(4000), Square(2000)>>, 2)
  /\ cropDiscarded = 1

\* C30: entering crop mode for any target starts a fresh session: the region
\* is the centred default (pos (50,50), size (40,40), ratio 1:1), the history
\* is the single entry holding that region and the index is 0, so undo and
\* redo reach no snapshot of an earlier session, committed or cancelled.
C30_EntryStartsFresh ==
  [][(StartCropCurrent \/ \E k \in DOMAIN results : StartCropResult(k)) =>
       /\ mode' = CROPPING
       /\ cropPos' = InitialPos /\ cropSize' = InitialSize /\ cropRatio' = "1:1"
       /\ StackIs(<<Fresh>>, 0)'
       /\ Undone(CropState)' = CropState'
       /\ Redone(CropState)' = CropState']_vars

\* A session on a result has just been entered after an earlier session that
\* pushed to its history and was committed.
C30_Reached ==
  /\ mode = CROPPING /\ cropData.id # CurrentId
  /\ StackIs(<<Fresh>>, 0)
  /\ cropOutput # NoOutput /\ cropOutput.canvasHeight # 400

\* C31: a crop commit whose source image cannot be loaded produces no artifact,
\* changes no artifact state, and reports a user-visible condition: the error
\* message becomes non-empty or the session visibly ends.
C31_UnavailableSourceReported ==
  [][\A k \in DOMAIN loads :
       mode = CROPPING /\ CropLoadError(k) =>
         /\ UNCHANGED artifactVars
         /\ error' # NoError \/ mode' # CROPPING]_vars

\* The mask is all-keep when every cell is opaque black, and unpainted when no
\* cell carries any white.
AllKeep == \A q \in MaskCells : maskCanvas[q] = Black
Unpainted == \A q \in MaskCells : maskCanvas[q].white = 0

\* C32: on entering mask-paint mode and after clearMagicHand every pixel of the
\* mask raster is keep (black), and a mask exported while no stroke is on it is
\* all-keep, however soon after entry the export is made.
C32_MaskStartsAllKeep ==
  [][/\ mode # MAGIC_HAND /\ mode' = MAGIC_HAND => AllKeep'
     /\ clearMagicHand => AllKeep'
     /\ castMagicHand /\ Unpainted => AllKeep]_vars

C32_ExportBeforeTimer == mode = REMOVING_WATERMARK /\ maskCanvas = FreshCanvas

\* The raster after the stroke from a to b is painted once more on canvas c.
Repainted(c, a, b) == [q \in MaskCells |-> StrokeCell(c[q], Coverage(a, b, q))]

\* C33: painting a stroke a second time over the same path with the same brush
\* width leaves the raster as the first pass left it, and a stroke never turns
\* a painted pixel back towards keep.
C33_StrokeIdempotent ==
  [][\A x \in MaskCells :
       handleMagicHandDraw(x) /\ maskPen # NoPen =>
         /\ Repainted(maskCanvas', maskPen, x) = maskCanvas'
         /\ \A q \in MaskCells : maskCanvas'[q].white >= maskCanvas[q].white]_vars

\* The half of C33 that the strokes do keep: no stroke lowers the white of a cell.
C33_StrokeNeverDarkens ==
  [][\A x \in MaskCells :
       handleMagicHandDraw(x) =>
         \A q \in MaskCells : maskCanvas'[q].white >= maskCanvas[q].white]_vars

\* C39: in mask-paint mode a painted pixel stays erase-target until
\* clearMagicHand or until the mode is left; the delayed initialisation armed
\* by startMagicHand never erases a stroke drawn after entry.
C39_StrokesSurviveInit ==
  [][\A q \in MaskCells :
       /\ mode = MAGIC_HAND /\ mode' = MAGIC_HAND
       /\ maskCanvas[q].white > 0
       /\ ~clearMagicHand
       => maskCanvas'[q].white > 0]_vars

\* The entry of the crop history that the index selects.
Recorded == cropHistory[cropHistoryIndex + 1]
Region == [pos |-> cropPos, size |-> cropSize, ratio |-> cropRatio]

\* C34: in crop mode, whenever no handle is held (none was pressed yet, or the
\* pointer was released since the last handle-down), position, size and ratio
\* equal the history entry the index selects, so that undo from rest never
\* skips a dragged region.
C34_RestMatchesHistory ==
  mode = CROPPING /\ (activeHandle = NoHandle \/ cropReleased) => Region = Recorded

\* What does hold: the region equals the selected entry as long as activeHandle
\* is null, that is until the first handle-down of the session.
C34_MatchesUntilFirstPress ==
  mode = CROPPING /\ activeHandle = NoHandle => Region = Recorded

\* C35: immediately after startCrop no handle is active, whatever way the
\* previous session ended, and with no handle active pointer moves leave the
\* region unchanged.
C35_StartCropClearsHandle ==
  [][/\ mode # CROPPING /\ mode' = CROPPING => activeHandle' = NoHandle
     /\ (/\ activeHandle = NoHandle
         /\ \E x \in PointerCoords, y \in PointerCoords : handleCropMouseMove(x, y))
        => cropPos' = cropPos /\ cropSize' = cropSize]_vars

\* The crop commit of this step: a pending source load completes in crop mode.
CommitsCrop == mode = CROPPING /\ \E k \in DOMAIN loads : Len(loads') = Len(loads) - 1

\* C36: once the mode is CROPPING, ZOOMING or MAGIC_HAND it changes only through
\* that mode's own commit, cancel or dismiss; no completion of a service call
\* or of a batch run, and no pending 4K upscale, changes it.
C36_InteractiveModeIsStable ==
  [][mode' # mode /\ mode \in Interactive =>
       (DiscardCrop \/ CommitsCrop \/ CloseZoom \/ CancelMagicHand
          \/ castMagicHand)]_vars

\* A step of a batch run: the service call of the run's current item settles.
RunStep ==
  \/ \E c \in calls : BatchItemResolve(c, nextImage)
  \/ \E c \in calls, msg \in ServiceMessages : BatchItemReject(c, msg)

QueueIds(queue) == {queue[k] : k \in DOMAIN queue}

\* C37: changes made to the batch queue during a run are preserved: no step of
\* the run brings back an item that was removed or cleared, and none drops an
\* item that an upload added.
C37_RunKeepsQueueChanges ==
  [][RunStep => QueueIds(batchQueue') = QueueIds(batchQueue)]_vars

\* The source load of a Finalize Crop completes in this step.
LoadCompletes == \E k \in DOMAIN loads : CropLoaded(k, nextImage, 1000, 1000)

\* C38: a crop session produces at most one artifact however often Finalize
\* Crop was triggered before the mode left CROPPING: once a commit has closed
\* the session (no session is cancelled here, so a load still pending in IDLE
\* comes from a further trigger in the committed session), the completion of
\* such a load adds nothing to the library and rewrites no item.
C38_OneArtifactPerSession ==
  [][mode = IDLE /\ LoadCompletes =>
       results' = results /\ currentImage' = currentImage /\ items' = items]_vars

\* C40: a batch item with status done carries no error message, also when it
\* failed in an earlier run and succeeded in a later one; only items with
\* status error carry a message.
C40_DoneCarriesNoMessage ==
  \A a \in DOMAIN items :
    /\ items[a].status = "done" => items[a].error = "none"
    /\ items[a].error # "none" => items[a].status = "error"

\* The first half of C40 on its own.
C40_DoneIsClean ==
  \A a \in DOMAIN items : items[a].status = "done" => items[a].error = "none"
====
